---- MODULE Spec2Model ----
(***************************************************************************)
(* Model of the IVR advisory pipeline: the recording watcher and its       *)
(* completeness gate (src/src/recording_processor.py), the audio fetcher   *)
(* (src/src/audio_fetcher.py), the transcript monitor                      *)
(* (src/transcript_monitor.py) and the orchestrator                        *)
(* (src/LLM_Server/orchestrator_agent.py).                                 *)
(*                                                                         *)
(* Three specifications share the module:                                  *)
(*   SpecGate  one audio file, its writer, and one caller going through    *)
(*             is_file_ready poll by poll;                                 *)
(*   Spec      the recording watcher, the audio fetcher and the transcript *)
(*             monitor working on a small directory of audio files;        *)
(*   SpecOrch  one call of process_farmer_request, step by step, and the   *)
(*             transcript monitor's handling of its result.                *)
(***************************************************************************)
EXTENDS Integers, Sequences, FiniteSets, TLC

VARIABLES
    \* ---- SpecGate: the file under the gate and the caller's position ----
    fexists,        \* the audio file is in the watch directory
    fsize,          \* its current size in bytes (st_size)
    marker,         \* the sidecar completion marker exists
    gpc,            \* position of the caller (see GatePcs)
    entry,          \* "watch": _process_file_delayed, "sweep": process_existing_files
    last_size,      \* is_file_ready: last_size
    stable_count,   \* is_file_ready: stable_count
    total_wait,     \* is_file_ready: total_wait
    obs,            \* sizes read by the running gate, newest last (history)
    evidence        \* what each gate call that returned True had seen (history)

gateVars == <<fexists, fsize, marker, gpc, entry, last_size, stable_count,
              total_wait, obs, evidence>>

VARIABLES
    \* ---- Spec: watcher, fetcher, transcript monitor ----
    suffix,         \* the suffix of each recording's file name
    dir,            \* audio files present in the monitor directory
    drops,          \* files dropped into the directory so far
    disk_log,       \* recordings/processed_files.json
    rp_phase,       \* RecordingProcessorGoogle: "off", "sweep", "watching"
    rp_processed,   \* RecordingProcessorGoogle.processed_files
    sweepTodo,      \* process_existing_files: files still to visit
    timers,         \* threading.Timer objects started by on_created, per file
    rp_calls,       \* process_recording calls made by the watcher, per file (history)
    af_phase,       \* AudioFetcher: "off", "idle", "scanning"
    af_processed,   \* AudioFetcher.processed_files
    afTodo,         \* fetch_files_once: new_files still to visit
    scans,          \* fetch_files_once calls so far
    transcripts,    \* recordings/transcripts/<id>_transcript.json, per file
    last_run,       \* what the newest process_recording call of a file saw (history)
    task_state,     \* the AudioTask state of each file id
    prev_state,     \* its state before the newest step on it (history)
    run,            \* the states that step went through, in order (history)
    tm_phase,       \* TranscriptMonitor: "off", "watching"
    tm_processed,   \* TranscriptMonitor.processed_files
    tm_disk,        \* recordings/processed_transcripts.json
    tm_events,      \* transcript files with a watchdog event not yet handled
    responses,      \* recordings/responses/<id>_response.json exists, per file
    playback        \* generated_audio/<id>_response.wav exists, per file

pipeVars == <<suffix, dir, drops, disk_log, rp_phase, rp_processed, sweepTodo, timers,
              rp_calls, af_phase, af_processed, afTodo, scans, transcripts,
              last_run, task_state, prev_state, run, tm_phase, tm_processed,
              tm_disk, tm_events, responses, playback>>

VARIABLES
    \* ---- SpecOrch: one process_farmer_request call and its handling ----
    opc,             \* position in process_farmer_request (see OrchPcs)
    query,           \* farmer_query
    decision,        \* pipeline_decision
    todo,            \* agent names the dispatch loop has still to visit
    agent_responses, \* agent_responses / intelligence, per agent
    agents_used,     \* agents_used
    outcome,         \* what each invoked agent's own work did (history)
    response,        \* the pipeline's response dict
    answer,          \* what process_farmer_request returned
    saved,           \* _save_response wrote the response JSON of this transcript
    audio            \* _generate_audio_response produced the playback audio

orchVars == <<opc, query, decision, todo, agent_responses, agents_used, outcome,
              response, answer, saved, audio>>

VARIABLES
    \* ---- SpecTts, SpecSplit: the text splitters applied to one text ----
    tts_text,        \* text_to_speech: text
    tts_chunks,      \* the chunks it sends to synthesize_speech, in order
    split_text,      \* translate_text: text
    split_size,      \* translate_text: max_chunk_size
    split_chunks     \* the chunks it sends to the translation service, in order

textVars == <<tts_text, tts_chunks, split_text, split_size, split_chunks>>

VARIABLES
    \* ---- SpecReply: _generate_audio_response for one response ----
    reply_lang,      \* the language detected for the transcript being answered
    reply_text,      \* response_text, the orchestrator's answer
    reply_hindi,     \* hindi_text, what is handed to generate_multilingual_audio
    reply_meta       \* the audio metadata _save_audio_metadata writes

replyVars == <<reply_lang, reply_text, reply_hindi, reply_meta>>

VARIABLES
    \* ---- SpecSave: the timer threads of RecordingFileHandler ----
    tpc,             \* position of each timer thread in _process_file_delayed
    processed_files, \* processor.processed_files, the list the threads share
    dumped,          \* what each thread's json.dump has put in its file buffer
    processed_json   \* the bytes of processed_files.json on disk

saveVars == <<tpc, processed_files, dumped, processed_json>>

VARIABLES
    \* ---- SpecWrite: a transcript JSON being written and the monitor ----
    wr_pc,           \* how far process_recording is with writing each transcript
    fs_events,       \* the watchdog events pending for each transcript
    tm_reads,        \* what _read_transcript_file found, per transcript (history)
    tm_handled       \* TranscriptMonitor.processed_files

writeVars == <<wr_pc, fs_events, tm_reads, tm_handled>>

VARIABLES
    \* ---- SpecCall: the agent calls of a pipeline, with time passing ----
    call_todo,       \* the agents the pipeline has still to call
    call_agent,      \* the agent whose process_query is executing, or ""
    call_overdue,    \* the agents whose call was still executing when its
                     \* deadline passed (history)
    call_findings    \* what has been recorded for each agent

callVars == <<call_todo, call_agent, call_overdue, call_findings>>

VARIABLES
    \* ---- SpecStop: the shutdown signal and the timer threads ----
    running          \* processor.running

stopVars == <<running>>

VARIABLES
    \* ---- SpecExtract: one call of _extract_query_from_input ----
    xpc,             \* "idle", "extract" (called, not returned) or "done"
    raw_input,       \* raw_input, the transcript text of the request
    completion,      \* what the chat-completion request of the call does
    extracted        \* the query _extract_query_from_input returned

extractVars == <<xpc, raw_input, completion, extracted>>

VARIABLES
    \* ---- SpecDates: one call of _validate_date_parameters ----
    vpc,             \* "idle", "validate" (called), "done" or "raised"
    llm_params,      \* the params dict as the LLM's JSON gave it
    date_params      \* the params dict _validate_date_parameters returned

dateVars == <<vpc, llm_params, date_params>>

vars == <<gateVars, pipeVars, orchVars, textVars, replyVars, saveVars, writeVars, callVars, stopVars, extractVars, dateVars>>

\* What a step of one component leaves alone.
NotGate == <<pipeVars, orchVars, textVars, replyVars, saveVars, writeVars, callVars, stopVars, extractVars, dateVars>>
NotPipe == <<gateVars, orchVars, textVars, replyVars, saveVars, writeVars, callVars, stopVars, extractVars, dateVars>>
NotOrch == <<gateVars, pipeVars, textVars, replyVars, saveVars, writeVars, callVars, stopVars, extractVars, dateVars>>
NotText == <<gateVars, pipeVars, orchVars, replyVars, saveVars, writeVars, callVars, stopVars, extractVars, dateVars>>
NotReply == <<gateVars, pipeVars, orchVars, textVars, saveVars, writeVars, callVars, stopVars, extractVars, dateVars>>
NotSave == <<gateVars, pipeVars, orchVars, textVars, replyVars, writeVars, callVars, stopVars, extractVars, dateVars>>
NotWrite == <<gateVars, pipeVars, orchVars, textVars, replyVars, saveVars, callVars, stopVars, extractVars, dateVars>>
NotCall == <<gateVars, pipeVars, orchVars, textVars, replyVars, saveVars, writeVars, stopVars, extractVars, dateVars>>
NotStop == <<gateVars, pipeVars, orchVars, textVars, replyVars, saveVars, writeVars, callVars, extractVars, dateVars>>
NotExtract == <<gateVars, pipeVars, orchVars, textVars, replyVars, saveVars, writeVars, callVars, stopVars, dateVars>>
NotDates == <<gateVars, pipeVars, orchVars, textVars, replyVars, saveVars, writeVars, callVars, stopVars, extractVars>>

(***************************************************************************)
(* Bounds and program constants                                            *)
(***************************************************************************)
MaxBlocks == 1          \* file sizes are 0..MaxBlocks blocks of SmallFileLimit bytes

stability_time == 5     \* is_file_ready(stability_time=5)
max_wait == 120         \* is_file_ready(max_wait=120)
SmallFileLimit == 1024  \* "if initial_size < 1024"

Sizes == {k * SmallFileLimit : k \in 0..MaxBlocks}

GatePcs == {"timer", "h_enter", "h_sleep", "h_poll", "p_enter", "p_sleep",
            "p_poll", "processing", "not_ready"}

NoEvidence == [marker |-> FALSE, sizes |-> <<>>]

(***************************************************************************)
(* is_file_ready, one loop iteration at a time                             *)
(***************************************************************************)
\* The sizes the gate keeps in view: the newest stability_time + 1 reads.
Observe(o, s) ==
    LET all == Append(o, s)
    IN  IF Len(all) > stability_time + 1
        THEN SubSeq(all, Len(all) - stability_time, Len(all))
        ELSE all

\* A faulty variant: the counter is never reset.
StableAfterPoll_NoReset(current, last, count) == count + 1

\* stable_count after a poll that read `current`.
StableAfterPoll(current, last, count) ==
    IF current = last THEN count + 1 ELSE 0

\* A faulty variant: one poll short.
IsStable_OneShort(count) == count >= stability_time - 1

\* "if stable_count >= stability_time: return True"
IsStable(count) == count >= stability_time

\* A faulty variant: the handler goes on to process_recording whatever its
\* gate call returned.
GateReturn_HandlerIgnoresGate(caller, ready) ==
    IF caller = "h" THEN "p_enter"
    ELSE IF ready THEN "processing" ELSE "not_ready"

\* Where the caller goes when its gate call returns.
GateReturn(caller, ready) ==
    IF caller = "h"
    THEN IF ready THEN "p_enter" ELSE "not_ready"
    ELSE IF ready THEN "processing" ELSE "not_ready"

\* The part of is_file_ready before the loop: exists(), the marker, the
\* first stat().
GateEnter(caller) ==
    /\ gpc = caller \o "_enter"
    /\ IF ~fexists
       THEN /\ gpc' = GateReturn(caller, FALSE)
            /\ UNCHANGED <<last_size, stable_count, total_wait, obs, evidence>>
       ELSE IF marker
       THEN /\ gpc' = GateReturn(caller, TRUE)
            /\ evidence' = [evidence EXCEPT ![caller] = [marker |-> TRUE, sizes |-> <<>>]]
            /\ UNCHANGED <<last_size, stable_count, total_wait, obs>>
       ELSE /\ last_size' = fsize
            /\ stable_count' = 0
            /\ total_wait' = 0
            /\ obs' = <<fsize>>
            /\ gpc' = IF fsize < SmallFileLimit
                      THEN caller \o "_sleep" ELSE caller \o "_poll"
            /\ UNCHANGED evidence
    /\ UNCHANGED <<fexists, fsize, marker, entry>>
    /\ UNCHANGED NotGate

\* "time.sleep(2)" for a file under 1 KiB.
GateSleep(caller) ==
    /\ gpc = caller \o "_sleep"
    /\ gpc' = caller \o "_poll"
    /\ UNCHANGED <<fexists, fsize, marker, entry, last_size, stable_count,
                   total_wait, obs, evidence>>
    /\ UNCHANGED NotGate

\* One iteration of "while total_wait < max_wait".
GatePoll(caller) ==
    /\ gpc = caller \o "_poll"
    /\ total_wait < max_wait
    /\ total_wait' = total_wait + 1
    /\ IF marker
       THEN /\ gpc' = GateReturn(caller, TRUE)
            /\ evidence' = [evidence EXCEPT ![caller] = [marker |-> TRUE, sizes |-> obs]]
            /\ UNCHANGED <<last_size, stable_count, obs>>
       ELSE IF ~fexists
       THEN /\ gpc' = GateReturn(caller, FALSE)
            /\ UNCHANGED <<last_size, stable_count, obs, evidence>>
       ELSE /\ obs' = Observe(obs, fsize)
            /\ stable_count' = StableAfterPoll(fsize, last_size, stable_count)
            /\ last_size' = fsize
            /\ IF fsize = last_size /\ IsStable(stable_count')
               THEN /\ gpc' = GateReturn(caller, TRUE)
                    /\ evidence' = [evidence EXCEPT
                                      ![caller] = [marker |-> FALSE, sizes |-> obs']]
               ELSE /\ gpc' = gpc
                    /\ UNCHANGED evidence
    /\ UNCHANGED <<fexists, fsize, marker, entry>>
    /\ UNCHANGED NotGate

\* The loop ends without a stable file: "did not stabilize within max_wait".
GateTimeout(caller) ==
    /\ gpc = caller \o "_poll"
    /\ total_wait >= max_wait
    /\ gpc' = GateReturn(caller, FALSE)
    /\ UNCHANGED <<fexists, fsize, marker, entry, last_size, stable_count,
                   total_wait, obs, evidence>>
    /\ UNCHANGED NotGate

\* RecordingFileHandler._process_file_delayed up to its is_file_ready call.
TimerFires ==
    /\ gpc = "timer"
    /\ entry = "watch"
    /\ gpc' = IF fexists THEN "h_enter" ELSE "not_ready"
    /\ UNCHANGED <<fexists, fsize, marker, entry, last_size, stable_count,
                   total_wait, obs, evidence>>
    /\ UNCHANGED NotGate

\* process_existing_files calls process_recording directly.
SweepCalls ==
    /\ gpc = "timer"
    /\ entry = "sweep"
    /\ fexists
    /\ gpc' = "p_enter"
    /\ UNCHANGED <<fexists, fsize, marker, entry, last_size, stable_count,
                   total_wait, obs, evidence>>
    /\ UNCHANGED NotGate

(***************************************************************************)
(* The recorder that is writing the file                                   *)
(***************************************************************************)
WriterWrites ==
    /\ fexists
    /\ gpc \notin {"processing", "not_ready"}
    /\ \E s \in Sizes \ {fsize} : fsize' = s
    /\ UNCHANGED <<fexists, marker, gpc, entry, last_size, stable_count,
                   total_wait, obs, evidence>>
    /\ UNCHANGED NotGate

WriterMarks ==
    /\ fexists
    /\ ~marker
    /\ gpc \notin {"processing", "not_ready"}
    /\ marker' = TRUE
    /\ UNCHANGED <<fexists, fsize, gpc, entry, last_size, stable_count,
                   total_wait, obs, evidence>>
    /\ UNCHANGED NotGate

FileRemoved ==
    /\ fexists
    /\ gpc \notin {"processing", "not_ready"}
    /\ fexists' = FALSE
    /\ UNCHANGED <<fsize, marker, gpc, entry, last_size, stable_count,
                   total_wait, obs, evidence>>
    /\ UNCHANGED NotGate

(***************************************************************************)
(* The recording pipeline: shared definitions                              *)
(***************************************************************************)
MaxDrops == 2           \* files dropped into the monitor directory in one run
MaxScans == 2           \* fetch_files_once calls in one run

\* The recordings of one run, by file id.
Files == {"a001"}

\* "file_path.suffix.lower() != '.wav'"
IsWav(f) == suffix[f] = ".wav"

\* config["target_language"] and config["translation_enabled"].
target_language == "en"
translation_enabled == TRUE

\* What the speech-to-text provider can return: no text, or one of two
\* utterances ("namaste" is in the offline phrase table, "fasal" is not).
SttTexts == {"", "namaste", "fasal"}
Languages == {"en", "hi"}

\* The outside world as one process_recording run meets it.
Env == [hready : BOOLEAN,                  \* the caller's own is_file_ready call
        pready : BOOLEAN,                  \* process_recording's is_file_ready call
        conv   : BOOLEAN,                  \* ffmpeg exits 0
        stt    : SttTexts,                 \* transcribe_audio's transcript
        lang   : Languages,                \* transcribe_audio's language
        svc    : {"ok", "fail", "raise"}]  \* the translation providers

RECURSIVE SeqOf(_)
\* list(a_set): the members in some fixed order.
SeqOf(S) == IF S = {} THEN <<>>
            ELSE LET x == CHOOSE y \in S : TRUE IN <<x>> \o SeqOf(S \ {x})

Range(s) == {s[i] : i \in 1..Len(s)}

(***************************************************************************)
(* translate_text and its offline fallback                                 *)
(***************************************************************************)
\* What a translation provider makes of a text.
Provider(text, target_lang) == target_lang \o "(" \o text \o ")"

\* _get_offline_translation towards English: the reverse phrase table.
OfflineTable(text) == IF text = "namaste" THEN "hello" ELSE text

\* simple_translations[target_lang].get(text_lower, text); "namaste" and
\* "dhanyavad" stand for the Hindi phrases.
PhraseTable(target_lang, text) ==
    IF target_lang = "hi" /\ text = "hello" THEN "namaste"
    ELSE IF target_lang = "hi" /\ text = "thank you" THEN "dhanyavad"
    ELSE text

get_offline_translation(text, source_lang, target_lang) ==
    IF target_lang \in {"hi", "bn", "en"} /\ source_lang = "en"
    THEN [translated_text |-> PhraseTable(target_lang, text),
          success |-> PhraseTable(target_lang, text) # text,
          service |-> "offline"]
    ELSE IF source_lang \in {"hi", "bn", "en"} /\ target_lang = "en"
    THEN [translated_text |-> OfflineTable(text),
          success |-> OfflineTable(text) # text, service |-> "offline"]
    ELSE [translated_text |-> text, success |-> FALSE, service |-> "none"]

translate_text(text, source_lang, target_lang, svc) ==
    IF source_lang = target_lang \/ text = ""
    THEN [translated_text |-> text, success |-> TRUE,
          service |-> "no_translation_needed"]
    ELSE IF svc = "ok"
    THEN [translated_text |-> Provider(text, target_lang), success |-> TRUE,
          service |-> "provider"]
    ELSE get_offline_translation(text, source_lang, target_lang)

(***************************************************************************)
(* process_recording                                                       *)
(***************************************************************************)
NoArtifact == [exists |-> FALSE, transcript |-> "", language |-> "",
               translated_text |-> "", translation_success |-> FALSE,
               success |-> FALSE]

\* The transcript JSON process_recording dumps.
ArtifactOf(transcript, language, translation) ==
    [exists |-> TRUE, transcript |-> transcript, language |-> language,
     translated_text |-> translation.translated_text,
     translation_success |-> translation.success, success |-> TRUE]

NoRun == [transcribed |-> FALSE, stt |-> "", translated |-> FALSE,
          translation_success |-> FALSE]

\* A run that stops with {"success": False, ...} after going through `stages`.
FailedRun(stages) ==
    [success |-> FALSE, stages |-> stages, artifact |-> NoArtifact,
     writes |-> FALSE, seen |-> NoRun]

\* A faulty variant: a translation that did not succeed ends the run without
\* a transcript.
process_recording_TranslationAborts(f, e) ==
    IF ~e.pready THEN FailedRun(<<"Failed">>)
    ELSE IF ~IsWav(f) /\ ~e.conv THEN FailedRun(<<"Converting", "Failed">>)
    ELSE IF e.stt = ""
    THEN [FailedRun(<<"Converting", "Transcribing", "Failed">>)
              EXCEPT !.seen = [NoRun EXCEPT !.transcribed = TRUE]]
    ELSE LET tl == IF translation_enabled /\ e.lang # target_language
                   THEN translate_text(e.stt, e.lang, target_language, e.svc)
                   ELSE [translated_text |-> e.stt, success |-> TRUE,
                         service |-> "none"]
             seen == [transcribed |-> TRUE, stt |-> e.stt, translated |-> TRUE,
                      translation_success |-> tl.success]
         IN  IF tl.success
             THEN [success |-> TRUE,
                   stages |-> <<"Converting", "Transcribing", "Translating",
                                "TranscriptReady">>,
                   artifact |-> ArtifactOf(e.stt, e.lang, tl),
                   writes |-> TRUE, seen |-> seen]
             ELSE [success |-> FALSE,
                   stages |-> <<"Converting", "Transcribing", "Translating",
                                "Failed">>,
                   artifact |-> NoArtifact, writes |-> FALSE, seen |-> seen]

\* process_recording(file_path): the result dict, the stages gone through, the
\* transcript written (if any) and what the run saw.
process_recording(f, e) ==
    IF ~e.pready THEN FailedRun(<<"Failed">>)
    ELSE IF ~IsWav(f) /\ ~e.conv THEN FailedRun(<<"Converting", "Failed">>)
    ELSE IF e.stt = ""
    THEN [FailedRun(<<"Converting", "Transcribing", "Failed">>)
              EXCEPT !.seen = [NoRun EXCEPT !.transcribed = TRUE]]
    ELSE LET tl == IF translation_enabled /\ e.lang # target_language
                   THEN translate_text(e.stt, e.lang, target_language, e.svc)
                   ELSE [translated_text |-> e.stt, success |-> TRUE,
                         service |-> "none"]
         IN  [success |-> TRUE,
              stages |-> <<"Converting", "Transcribing", "Translating",
                           "TranscriptReady">>,
              artifact |-> ArtifactOf(e.stt, e.lang, tl),
              writes |-> TRUE,
              seen |-> [transcribed |-> TRUE, stt |-> e.stt, translated |-> TRUE,
                        translation_success |-> tl.success]]

\* The effect of one process_recording call on the files it touches and on
\* the AudioTask of file f, which went through `before` first.
RunEffects(f, r, before) ==
    /\ transcripts' = IF r.writes THEN [transcripts EXCEPT ![f] = r.artifact]
                      ELSE transcripts
    /\ tm_events' = IF r.writes /\ tm_phase = "watching"
                    THEN tm_events \cup {f} ELSE tm_events
    /\ last_run' = [last_run EXCEPT ![f] = r.seen]
    /\ prev_state' = [prev_state EXCEPT ![f] = task_state[f]]
    /\ run' = [run EXCEPT ![f] = before \o r.stages]
    /\ task_state' = [task_state EXCEPT ![f] = r.stages[Len(r.stages)]]

\* A step on file f that ends before process_recording is called.
NoRunEffects(f, stages) ==
    /\ prev_state' = [prev_state EXCEPT ![f] = task_state[f]]
    /\ run' = [run EXCEPT ![f] = stages]
    /\ task_state' = [task_state EXCEPT ![f] = stages[Len(stages)]]
    /\ UNCHANGED <<transcripts, tm_events, last_run>>

(***************************************************************************)
(* processed_files.json as the two components read and write it            *)
(***************************************************************************)
NoLog == [fmt |-> "absent", items |-> <<>>]

\* RecordingProcessorGoogle.load_processed_files: whatever json.load returns.
rp_load(log) ==
    IF log.fmt = "absent" THEN [kind |-> "list", items |-> <<>>]
    ELSE [kind |-> log.fmt, items |-> log.items]

\* "str(file_path) not in self.processed_files": on a dict, `in` looks at keys.
rp_contains(p, f) ==
    IF p.kind = "list" THEN f \in Range(p.items)
    ELSE f \in {"files", "last_updated", "count"}

\* "self.processed_files.append(...)": a dict has no append (AttributeError,
\* caught and logged by both callers).
rp_append(p, f) ==
    IF p.kind = "list" THEN [p EXCEPT !.items = Append(p.items, f)] ELSE p

\* RecordingProcessorGoogle.save_processed_files: json.dump of the object.
rp_save(p) == [fmt |-> p.kind, items |-> p.items]

\* AudioFetcher.load_processed_files: set(data.get('files', [])); a list has
\* no get (AttributeError, caught): set().
af_load(log) == IF log.fmt = "dict" THEN Range(log.items) ELSE {}

\* AudioFetcher.save_processed_files: {'files': list(...), ...}.
af_save(s) == [fmt |-> "dict", items |-> SeqOf(s)]

(***************************************************************************)
(* RecordingProcessorGoogle: constructor, startup sweep, watch handler     *)
(***************************************************************************)
\* A recording lands in the monitor directory; a running observer calls
\* on_created, which starts a Timer for it.
DropFile(f) ==
    /\ drops < MaxDrops
    /\ drops' = drops + 1
    /\ dir' = dir \cup {f}
    /\ timers' = IF rp_phase = "watching"
                 THEN [timers EXCEPT ![f] = @ + 1] ELSE timers
    /\ UNCHANGED <<suffix, disk_log, rp_phase, rp_processed, sweepTodo, rp_calls,
                   af_phase, af_processed, afTodo, scans, transcripts,
                   last_run, task_state, prev_state, run, tm_phase,
                   tm_processed, tm_disk, tm_events, responses, playback>>
    /\ UNCHANGED NotPipe

\* __init__ and the start of start_monitoring / process_existing_files.
RPStart ==
    /\ rp_phase = "off"
    /\ rp_phase' = "sweep"
    /\ rp_processed' = rp_load(disk_log)
    /\ sweepTodo' = {f \in dir : ~rp_contains(rp_load(disk_log), f)}
    /\ UNCHANGED <<suffix, dir, drops, disk_log, timers, rp_calls, af_phase,
                   af_processed, afTodo, scans, transcripts, last_run,
                   task_state, prev_state, run, tm_phase, tm_processed,
                   tm_disk, tm_events, responses, playback>>
    /\ UNCHANGED NotPipe

\* One iteration of the loop of process_existing_files.
RPSweepStep(f) ==
    /\ rp_phase = "sweep"
    /\ f \in sweepTodo
    /\ sweepTodo' = sweepTodo \ {f}
    /\ \E e \in Env :
         LET r == process_recording(f, e) IN
         /\ RunEffects(f, r, <<"Pending">>)
         /\ rp_processed' = IF r.success THEN rp_append(rp_processed, f)
                            ELSE rp_processed
    /\ rp_calls' = [rp_calls EXCEPT ![f] = @ + 1]
    /\ UNCHANGED <<suffix, dir, drops, disk_log, rp_phase, timers, af_phase,
                   af_processed, afTodo, scans, tm_phase, tm_processed,
                   tm_disk, responses, playback>>
    /\ UNCHANGED NotPipe

\* The end of process_existing_files, and observer.start().
RPSweepEnd ==
    /\ rp_phase = "sweep"
    /\ sweepTodo = {}
    /\ disk_log' = rp_save(rp_processed)
    /\ rp_phase' = "watching"
    /\ UNCHANGED <<suffix, dir, drops, rp_processed, sweepTodo, timers, rp_calls,
                   af_phase, af_processed, afTodo, scans, transcripts,
                   last_run, task_state, prev_state, run, tm_phase,
                   tm_processed, tm_disk, tm_events, responses, playback>>
    /\ UNCHANGED NotPipe

\* RecordingFileHandler._process_file_delayed, run by a Timer thread.
TimerRun(f) ==
    /\ timers[f] > 0
    /\ timers' = [timers EXCEPT ![f] = @ - 1]
    /\ \E e \in Env :
         IF ~e.hready
         THEN /\ NoRunEffects(f, <<"Pending", "Failed">>)
              /\ UNCHANGED <<rp_processed, disk_log, rp_calls>>
         ELSE LET r == process_recording(f, e) IN
              /\ RunEffects(f, r, <<"Pending">>)
              /\ rp_calls' = [rp_calls EXCEPT ![f] = @ + 1]
              /\ rp_processed' = IF r.success THEN rp_append(rp_processed, f)
                                 ELSE rp_processed
              /\ disk_log' = IF r.success
                             THEN rp_save(rp_append(rp_processed, f))
                             ELSE disk_log
    /\ UNCHANGED <<suffix, dir, drops, rp_phase, sweepTodo, af_phase, af_processed,
                   afTodo, scans, tm_phase, tm_processed, tm_disk, responses,
                   playback>>
    /\ UNCHANGED NotPipe

(***************************************************************************)
(* AudioFetcher                                                            *)
(***************************************************************************)
\* AudioFetcher.__init__.
AFStart ==
    /\ af_phase = "off"
    /\ af_phase' = "idle"
    /\ af_processed' = af_load(disk_log)
    /\ UNCHANGED <<suffix, dir, drops, disk_log, rp_phase, rp_processed, sweepTodo,
                   timers, rp_calls, afTodo, scans, transcripts, last_run,
                   task_state, prev_state, run, tm_phase, tm_processed,
                   tm_disk, tm_events, responses, playback>>
    /\ UNCHANGED NotPipe

\* find_new_audio_files.
find_new_audio_files == {f \in dir : f \notin af_processed}

\* fetch_files_once up to its loop; with nothing new it returns at once.
AFScanBegin ==
    /\ af_phase = "idle"
    /\ scans < MaxScans
    /\ scans' = scans + 1
    /\ afTodo' = find_new_audio_files
    /\ af_phase' = IF find_new_audio_files = {} THEN "idle" ELSE "scanning"
    /\ UNCHANGED <<suffix, dir, drops, disk_log, rp_phase, rp_processed, sweepTodo,
                   timers, rp_calls, af_processed, transcripts, last_run,
                   task_state, prev_state, run, tm_phase, tm_processed,
                   tm_disk, tm_events, responses, playback>>
    /\ UNCHANGED NotPipe

\* process_audio_file for one of new_files.
AFStep(f) ==
    /\ af_phase = "scanning"
    /\ f \in afTodo
    /\ afTodo' = afTodo \ {f}
    /\ \E e \in Env :
         IF ~e.hready
         THEN /\ NoRunEffects(f, <<"Pending", "Failed">>)
              /\ UNCHANGED af_processed
         ELSE LET r == process_recording(f, e) IN
              /\ RunEffects(f, r, <<"Pending">>)
              /\ af_processed' = IF r.success THEN af_processed \cup {f}
                                 ELSE af_processed
    /\ UNCHANGED <<suffix, dir, drops, disk_log, rp_phase, rp_processed, sweepTodo,
                   timers, rp_calls, af_phase, scans, tm_phase, tm_processed,
                   tm_disk, responses, playback>>
    /\ UNCHANGED NotPipe

\* The end of fetch_files_once: save_processed_files.
AFScanEnd ==
    /\ af_phase = "scanning"
    /\ afTodo = {}
    /\ disk_log' = af_save(af_processed)
    /\ af_phase' = "idle"
    /\ UNCHANGED <<suffix, dir, drops, rp_phase, rp_processed, sweepTodo, timers,
                   rp_calls, af_processed, afTodo, scans, transcripts,
                   last_run, task_state, prev_state, run, tm_phase,
                   tm_processed, tm_disk, tm_events, responses, playback>>
    /\ UNCHANGED NotPipe

(***************************************************************************)
(* Texts: a text is a sequence of tokens, each standing for a passage      *)
(***************************************************************************)
\* "w" is a sentence of plain prose; "Error:" is the prefix call_text_llm puts
\* before an exception's message; "timeout" is a word of the monitor's second
\* indicator list; the rest make up JSON objects (see Body).
TokenLen(tok) ==
    CASE tok = "w" -> 30
      [] tok = "Error:" -> 6
      [] tok = "timeout" -> 7
      [] tok \in {"{", "}"} -> 1
      [] OTHER -> 12

RECURSIVE TextLen(_)
\* len(text.strip()).
TextLen(text) ==
    IF text = <<>> THEN 0 ELSE TokenLen(Head(text)) + TextLen(Tail(text))

\* word in text.lower()
HasWord(text, words) == \E i \in 1..Len(text) : text[i] \in words

NoneResponse == [none |-> TRUE, text |-> <<>>]

Str(text) == [none |-> FALSE, text |-> text]

(***************************************************************************)
(* TranscriptMonitor                                                       *)
(***************************************************************************)
\* A faulty variant: a transcript whose translation failed yields no text.
extract_translated_text_NeedsTranslation(data) ==
    IF ~data.success \/ ~data.translation_success THEN ""
    ELSE IF data.translated_text # "" THEN data.translated_text
    ELSE data.transcript

\* TranscriptMonitor._extract_translated_text; "" stands for None as well:
\* the caller only tests "if not translated_text".
extract_translated_text(data) ==
    IF ~data.success THEN ""
    ELSE IF ~data.translation_success THEN data.transcript
    ELSE IF data.translated_text # "" THEN data.translated_text
    ELSE data.transcript

\* The test _process_with_orchestrator makes on the orchestrator's reply.
IsErrorReply(text) ==
    \/ (text # <<>> /\ Head(text) = "Error:")
    \/ HasWord(text, {"Error:", "failed"})
    \/ TextLen(text) < 10

\* TranscriptMonitor._process_with_orchestrator, given what
\* process_farmer_request returned (none: it raised, or there is no
\* orchestrator): what it returns, and whether _save_response ran.
process_with_orchestrator(resp) ==
    IF resp.none THEN [response |-> NoneResponse, saved |-> FALSE]
    ELSE IF IsErrorReply(resp.text)
    THEN [response |-> NoneResponse, saved |-> FALSE]
    ELSE [response |-> resp, saved |-> TRUE]

\* TranscriptMonitor._is_error_response.
is_error_response(resp) ==
    \/ resp.none
    \/ TextLen(resp.text) < 20
    \/ HasWord(resp.text, {"Error:", "failed", "timeout"})

\* A faulty variant: the response JSON is written only once the audio exists.
ResponseArtifacts_SaveAfterAudio(o, speak, tts) ==
    [response |-> o.saved /\ speak /\ tts, playback |-> speak /\ tts]

\* The artifacts one transcript leaves: _save_response runs inside
\* _process_with_orchestrator, before any audio is attempted; the audio and its
\* playback copy exist when _generate_audio_response was called and
\* generate_multilingual_audio returned success.
ResponseArtifacts(o, speak, tts) ==
    [response |-> o.saved, playback |-> speak /\ tts]

\* What the orchestrator and the TTS provider do for one transcript.
\* A faulty variant: a transcript is marked only when its answer was good
\* enough to be spoken.
mark_processed_OnlyOnSuccess(processed, filename, speak) ==
    IF speak THEN processed \cup {filename} ELSE processed

\* _process_transcript_file, "Mark as processed": processed_files.add(filename)
\* and _save_processed_files(), whatever the orchestrator returned.
mark_processed(processed, filename, speak) == processed \cup {filename}

FinalTexts == {<<>>, <<"w">>, <<"Error:", "w">>, <<"w", "timeout">>}

TmEnv == [orch : {NoneResponse} \cup {Str(x) : x \in FinalTexts},
          tts  : BOOLEAN]

\* monitor_transcripts up to observer.start(): the constructor loads the log,
\* and every transcript already there and not in it is handed to
\* _process_transcript_file.
TMStart ==
    /\ tm_phase = "off"
    /\ tm_phase' = "watching"
    /\ tm_processed' = tm_disk
    /\ tm_events' = {f \in Files : transcripts[f].exists /\ f \notin tm_disk}
    /\ UNCHANGED <<suffix, dir, drops, disk_log, rp_phase, rp_processed, sweepTodo,
                   timers, rp_calls, af_phase, af_processed, afTodo, scans,
                   transcripts, last_run, task_state, prev_state, run,
                   tm_disk, responses, playback>>
    /\ UNCHANGED NotPipe

\* on_created / on_modified and _process_transcript_file for one transcript.
TMHandle(f) ==
    /\ tm_phase = "watching"
    /\ f \in tm_events
    /\ tm_events' = tm_events \ {f}
    /\ IF f \in tm_processed \/ extract_translated_text(transcripts[f]) = ""
       THEN UNCHANGED <<tm_processed, tm_disk, responses, playback,
                        task_state, prev_state, run>>
       ELSE \E x \in TmEnv :
              LET o == process_with_orchestrator(x.orch)
                  speak == ~o.response.none /\ ~is_error_response(o.response)
                  stages == IF speak
                            THEN IF x.tts
                                 THEN <<"Orchestrating", "Responding", "Done">>
                                 ELSE <<"Orchestrating", "Responding", "Failed">>
                            ELSE <<"Orchestrating", "Failed">>
                  made == ResponseArtifacts(o, speak, x.tts)
              IN  /\ responses' = IF made.response
                                  THEN [responses EXCEPT ![f] = TRUE]
                                  ELSE responses
                  /\ playback' = IF made.playback
                                 THEN [playback EXCEPT ![f] = TRUE] ELSE playback
                  /\ tm_processed' = mark_processed(tm_processed, f, speak)
                  /\ tm_disk' = mark_processed(tm_processed, f, speak)
                  /\ prev_state' = [prev_state EXCEPT ![f] = task_state[f]]
                  /\ run' = [run EXCEPT ![f] = stages]
                  /\ task_state' = [task_state EXCEPT ![f] = stages[Len(stages)]]
    /\ UNCHANGED <<suffix, dir, drops, disk_log, rp_phase, rp_processed, sweepTodo,
                   timers, rp_calls, af_phase, af_processed, afTodo, scans,
                   transcripts, last_run, tm_phase>>
    /\ UNCHANGED NotPipe

(***************************************************************************)
(* LLMClient.call_text_llm and the parsing of its replies                  *)
(***************************************************************************)
\* What call_text_llm can return: it catches every exception and returns the
\* string "Error: <message>" instead, so its caller always gets a string.
\* " " is white space; "rain" is a sentence with the word "rain" in it; the
\* tokens between braces are the bodies of JSON objects (see JsonObject).
LlmReplies ==
    {<<>>, <<" ">>, <<"w">>, <<"w", "rain">>, <<"Error:", "w">>,
     <<"{", "bad", "}">>,
     <<"{", "S:wp", "}", "{", "G", "}">>,
     <<"w", "{", "S:wp", "}", "w">>,
     <<"{", "S", "}">>, <<"{", "S:all", "}">>, <<"{", "S:null", "}">>,
     <<"{", "G", "}">>, <<"{", "X", "}">>, <<"{", "}">>}

RECURSIVE LStrip(_)
LStrip(text) ==
    IF text # <<>> /\ Head(text) = " " THEN LStrip(Tail(text)) ELSE text

RECURSIVE RStrip(_)
RStrip(text) ==
    IF text # <<>> /\ text[Len(text)] = " "
    THEN RStrip(SubSeq(text, 1, Len(text) - 1)) ELSE text

\* str.strip(); no reply of LlmReplies begins or ends with a quote, so the
\* two strip(quote) calls of _extract_query_from_input change nothing.
Strip(text) == RStrip(LStrip(text))

\* The four specialists, in the order the orchestrator names them.
AllAgents == <<"weather", "soil", "pest", "scheme">>

Agents == Range(AllAgents)

\* A value of the key "required_agents": a list of names, the string "all"
\* (iterating over it yields its characters), or null (not iterable).
AgentList(items) == [iterable |-> TRUE, items |-> items]

AllString == [iterable |-> TRUE, items |-> <<"a", "l", "l">>]

NullValue == [iterable |-> FALSE, items |-> <<>>]

\* json.loads of "{" body "}" for the bodies that are valid JSON: which of
\* the keys the callers look at are there, and their values.
JsonObject(body) ==
    CASE body = "S:wp" ->
           [has_type |-> TRUE, pipeline_type |-> "specific", has_agents |-> TRUE,
            required_agents |-> AgentList(<<"weather", "pest">>),
            has_error |-> FALSE]
      [] body = "S:all" ->
           [has_type |-> TRUE, pipeline_type |-> "specific", has_agents |-> TRUE,
            required_agents |-> AllString, has_error |-> FALSE]
      [] body = "S:null" ->
           [has_type |-> TRUE, pipeline_type |-> "specific", has_agents |-> TRUE,
            required_agents |-> NullValue, has_error |-> FALSE]
      [] body = "S" ->
           [has_type |-> TRUE, pipeline_type |-> "specific", has_agents |-> FALSE,
            required_agents |-> NullValue, has_error |-> FALSE]
      [] body = "G" ->
           [has_type |-> TRUE, pipeline_type |-> "generic", has_agents |-> TRUE,
            required_agents |-> AllString, has_error |-> FALSE]
      [] body = "X" ->
           [has_type |-> TRUE, pipeline_type |-> "hybrid", has_agents |-> FALSE,
            required_agents |-> NullValue, has_error |-> FALSE]
      [] OTHER ->     \* "{}"
           [has_type |-> FALSE, pipeline_type |-> "", has_agents |-> FALSE,
            required_agents |-> NullValue, has_error |-> FALSE]

ValidBodies == {"S:wp", "S:all", "S:null", "S", "G", "X"}

\* OrchestratorAgent._get_fallback_response.
get_fallback_response(fallback_type) ==
    IF fallback_type = "pipeline_classification"
    THEN [has_type |-> TRUE, pipeline_type |-> "generic", has_agents |-> TRUE,
          required_agents |-> AllString, has_error |-> FALSE]
    ELSE [has_type |-> FALSE, pipeline_type |-> "", has_agents |-> FALSE,
          required_agents |-> NullValue, has_error |-> TRUE]

\* OrchestratorAgent._parse_json_response: re.search(r'\{.*\}', DOTALL) takes
\* the text from the first "{" to the last "}" after it; json.loads accepts it
\* when it is one object.
parse_json_response(response_text, fallback_type) ==
    LET opens  == {i \in 1..Len(response_text) : response_text[i] = "{"}
        first  == CHOOSE i \in opens : \A k \in opens : i <= k
        closes == {j \in 1..Len(response_text) :
                       response_text[j] = "}" /\ j > first}
        last   == CHOOSE j \in closes : \A k \in closes : k <= j
        json_str == SubSeq(response_text, first, last)
    IN  IF opens = {} \/ closes = {} THEN get_fallback_response(fallback_type)
        ELSE IF Len(json_str) = 2 THEN JsonObject("")
        ELSE IF Len(json_str) = 3 /\ json_str[2] \in ValidBodies
        THEN JsonObject(json_str[2])
        ELSE get_fallback_response(fallback_type)

\* OrchestratorAgent._intelligent_pipeline_fallback: of its specific_keywords
\* only "rain" occurs in the texts of the model.
intelligent_pipeline_fallback(farmer_query) ==
    IF HasWord(farmer_query, {"weather", "pest", "soil", "scheme", "fertilizer",
                              "insect", "rain", "subsidy"})
    THEN "specific" ELSE "generic"

\* The keywords _infer_required_agents looks for, per agent.
AgentWords(a) ==
    CASE a = "weather" -> {"weather", "rain", "irrigation", "temperature"}
      [] a = "soil"    -> {"soil", "fertilizer", "nutrient"}
      [] a = "pest"    -> {"pest", "insect", "disease", "weed"}
      [] OTHER         -> {"scheme", "subsidy", "loan", "government"}

\* OrchestratorAgent._infer_required_agents.
infer_required_agents(farmer_query) ==
    LET agents == SelectSeq(AllAgents,
                            LAMBDA a : HasWord(farmer_query, AgentWords(a)))
    IN  IF agents # <<>> THEN agents ELSE AllAgents

\* OrchestratorAgent._extract_query_from_input, given the LLM's reply.
extract_query_from_input(reply) == Strip(reply)

\* OrchestratorAgent._classify_pipeline, given the LLM's reply.
classify_pipeline(reply, farmer_query) ==
    LET d == parse_json_response(reply, "pipeline_classification")
        t1 == IF ~d.has_type THEN intelligent_pipeline_fallback(farmer_query)
              ELSE d.pipeline_type
        t2 == IF t1 \notin {"specific", "generic"} THEN "generic" ELSE t1
    IN  [pipeline_type |-> t2,
         required_agents |->
             IF t2 = "specific" /\ ~d.has_agents
             THEN AgentList(infer_required_agents(farmer_query))
             ELSE IF t2 = "generic" THEN AllString
             ELSE d.required_agents]

NoDecision == [pipeline_type |-> "", required_agents |-> NullValue]

(***************************************************************************)
(* The specialists                                                         *)
(***************************************************************************)
\* What an agent's own work does in one call: it yields advice ("ok"), it
\* finds it cannot help ("failed": no database, no data), or something in it
\* raises ("raised").
Outcomes == {"ok", "failed", "raised"}

NoFinding == [recorded |-> FALSE, agent |-> "", key |-> "", ok |-> FALSE,
              pipeline |-> ""]

\* The dict an agent returns: weather, soil and pest report under the key
\* "success" (True / False), scheme under "status" ("success" / "error").
FindingOf(a, o, pipeline_type) ==
    [recorded |-> TRUE, agent |-> a,
     key |-> IF a = "scheme" THEN "status" ELSE "success",
     ok |-> (o = "ok"), pipeline |-> pipeline_type]

\* A faulty variant: an exception in an agent's work leaves process_query.
process_query_Propagates(a, o, pipeline_type) ==
    [raised |-> (o = "raised"), finding |-> FindingOf(a, o, pipeline_type)]

\* WeatherAgent / SoilAgent / PestAgent / SchemeAgent.process_query: the work
\* runs inside try/except, and the except branch returns a failure dict.
process_query(a, o, pipeline_type) ==
    [raised |-> FALSE, finding |-> FindingOf(a, o, pipeline_type)]

NoFindings == [a \in Agents |-> NoFinding]

\* A faulty variant: recording a failure throws the earlier findings away.
record_finding_FailureResets(findings, a, finding) ==
    IF finding.ok THEN [findings EXCEPT ![a] = finding]
    ELSE [NoFindings EXCEPT ![a] = finding]

\* agent_responses["weather"] = response / intelligence["weather"] = ...
record_finding(findings, a, finding) == [findings EXCEPT ![a] = finding]

\* response.get("status") == "success", the test of the synthesis loop.
StatusIsSuccess(finding) ==
    finding.recorded /\ finding.key = "status" /\ finding.ok

(***************************************************************************)
(* OrchestratorAgent.process_farmer_request, step by step                  *)
(***************************************************************************)
OrchPcs == {"idle", "extract", "classify", "specific", "gather", "strategy",
            "convert", "returned", "handled"}

NoResponseDict == [status |-> "none", has_farmer_response |-> FALSE,
                   farmer_response |-> <<>>, integrated |-> {},
                   strategy |-> "none"]

\* The except branch of _execute_specific_pipeline.
SpecificError == [status |-> "error", has_farmer_response |-> FALSE,
                  farmer_response |-> <<>>, integrated |-> {},
                  strategy |-> "none"]

\* _synthesize_specific_responses followed by final_response.update(...):
\* the summaries are those of the findings whose "status" is "success", and
\* the farmer_response is the LLM's reply as it came.
synthesize_specific_responses(findings, reply) ==
    [status |-> "success", has_farmer_response |-> TRUE,
     farmer_response |-> reply,
     integrated |-> {a \in Agents : StatusIsSuccess(findings[a])},
     strategy |-> "none"]

\* _generate_comprehensive_strategy, given the LLM's reply: the parsed object,
\* the fallback's error dict, or the reply wrapped as text.
generate_comprehensive_strategy(reply) ==
    IF parse_json_response(reply, "strategy_generation").has_error
    THEN "error" ELSE "text_structured"

\* The final_response _execute_generic_pipeline compiles.
GenericResponse(findings, reply) ==
    [status |-> "success", has_farmer_response |-> FALSE,
     farmer_response |-> <<>>,
     integrated |-> {a \in Agents : StatusIsSuccess(findings[a])},
     strategy |-> generate_comprehensive_strategy(reply)]

\* _convert_json_to_english, given the LLM's reply.
convert_json_to_english(response_data, reply) ==
    IF response_data.has_farmer_response THEN response_data.farmer_response
    ELSE Strip(reply)

\* A faulty variant: the synthesis starts while one agent is still to be
\* called.
dispatch_over_OneLeft(remaining) == Len(remaining) <= 1

\* The pipelines call their agents one after the other in the calling
\* thread, and go on to the synthesis when the last call has returned.
dispatch_over(remaining) == remaining = <<>>

OrchIdle ==
    /\ opc = "idle"
    /\ query = <<>>
    /\ decision = NoDecision
    /\ todo = <<>>
    /\ agent_responses = NoFindings
    /\ agents_used = <<>>
    /\ outcome = [a \in Agents |-> "none"]
    /\ response = NoResponseDict
    /\ answer = NoneResponse
    /\ saved = FALSE
    /\ audio = FALSE

\* _process_with_orchestrator calls process_farmer_request for a transcript;
\* _process_farmer_input returns a profile dict whatever happens in it.
OrchBegin ==
    /\ opc \in {"idle", "handled"}
    /\ opc' = "extract"
    /\ query' = <<>>
    /\ decision' = NoDecision
    /\ todo' = <<>>
    /\ agent_responses' = NoFindings
    /\ agents_used' = <<>>
    /\ outcome' = [a \in Agents |-> "none"]
    /\ response' = NoResponseDict
    /\ answer' = NoneResponse
    /\ saved' = FALSE
    /\ audio' = FALSE
    /\ UNCHANGED NotOrch

\* Step 2: _extract_query_from_input.
OrchExtract ==
    /\ opc = "extract"
    /\ \E reply \in LlmReplies : query' = extract_query_from_input(reply)
    /\ opc' = "classify"
    /\ UNCHANGED <<decision, todo, agent_responses, agents_used, outcome,
                   response, answer, saved, audio>>
    /\ UNCHANGED NotOrch

\* Step 3: _classify_pipeline, and the choice of step 4.
OrchClassify ==
    /\ opc = "classify"
    /\ \E reply \in LlmReplies :
         LET d == classify_pipeline(reply, query) IN
         /\ decision' = d
         /\ opc' = IF d.pipeline_type = "specific" THEN "specific" ELSE "gather"
         /\ todo' = IF d.pipeline_type = "specific" THEN d.required_agents.items
                    ELSE AllAgents
    /\ UNCHANGED <<query, agent_responses, agents_used, outcome, response,
                   answer, saved, audio>>
    /\ UNCHANGED NotOrch

\* _execute_specific_pipeline: one turn of "for agent_name in required_agents".
\* A value that cannot be iterated raises, a name that is none of the four
\* agents matches no branch, and an exception leaving an agent ends the
\* pipeline in its except branch.
SpecificCall ==
    /\ opc = "specific"
    /\ ~decision.required_agents.iterable \/ todo # <<>>
    /\ IF ~decision.required_agents.iterable
       THEN /\ response' = SpecificError
            /\ opc' = "convert"
            /\ UNCHANGED <<todo, agent_responses, agents_used, outcome>>
       ELSE LET a == Head(todo) IN
            IF a \notin Agents
            THEN /\ todo' = Tail(todo)
                 /\ UNCHANGED <<opc, agent_responses, agents_used, outcome,
                                response>>
            ELSE \E o \in Outcomes :
                   LET r == process_query(a, o, "specific") IN
                   /\ outcome' = [outcome EXCEPT ![a] = o]
                   /\ IF r.raised
                      THEN /\ response' = SpecificError
                           /\ opc' = "convert"
                           /\ UNCHANGED <<todo, agent_responses, agents_used>>
                      ELSE /\ agent_responses' =
                                  record_finding(agent_responses, a, r.finding)
                           /\ agents_used' = Append(agents_used, a)
                           /\ todo' = Tail(todo)
                           /\ UNCHANGED <<opc, response>>
    /\ UNCHANGED <<query, decision, answer, saved, audio>>
    /\ UNCHANGED NotOrch

\* _execute_specific_pipeline after the loop: the synthesis and the update of
\* final_response.
SpecificSynthesize ==
    /\ opc = "specific"
    /\ decision.required_agents.iterable
    /\ dispatch_over(todo)
    /\ \E reply \in LlmReplies :
         response' = synthesize_specific_responses(agent_responses, reply)
    /\ opc' = "convert"
    /\ UNCHANGED <<query, decision, todo, agent_responses, agents_used,
                   outcome, answer, saved, audio>>
    /\ UNCHANGED NotOrch

\* _gather_comprehensive_intelligence: the call of the next agent; an
\* exception leaving an agent makes it return {"error": ...} instead of the
\* intelligence gathered so far.
GatherCall ==
    /\ opc = "gather"
    /\ todo # <<>>
    /\ LET a == Head(todo) IN
       \E o \in Outcomes :
         LET r == process_query(a, o, "generic") IN
         /\ outcome' = [outcome EXCEPT ![a] = o]
         /\ IF r.raised
            THEN /\ agent_responses' = NoFindings
                 /\ todo' = <<>>
            ELSE /\ agent_responses' =
                        record_finding(agent_responses, a, r.finding)
                 /\ todo' = Tail(todo)
         /\ opc' = IF r.raised \/ dispatch_over(Tail(todo))
                      THEN "strategy" ELSE "gather"
    /\ UNCHANGED <<query, decision, agents_used, response, answer, saved, audio>>
    /\ UNCHANGED NotOrch

\* _execute_generic_pipeline after the intelligence: strategy, roadmap,
\* hyperlocal guidance, and the final response.
GenericCompile ==
    /\ opc = "strategy"
    /\ \E reply \in LlmReplies :
         response' = GenericResponse(agent_responses, reply)
    /\ agents_used' = AllAgents
    /\ opc' = "convert"
    /\ UNCHANGED <<query, decision, todo, agent_responses, outcome, answer,
                   saved, audio>>
    /\ UNCHANGED NotOrch

\* Steps 5 and 6: the metadata, _convert_json_to_english, and the return.
OrchConvert ==
    /\ opc = "convert"
    /\ \E reply \in LlmReplies :
         answer' = Str(convert_json_to_english(response, reply))
    /\ opc' = "returned"
    /\ UNCHANGED <<query, decision, todo, agent_responses, agents_used,
                   outcome, response, saved, audio>>
    /\ UNCHANGED NotOrch

\* The rest of TranscriptMonitor._process_with_orchestrator and of
\* _process_transcript_file once process_farmer_request has returned.
TMReceive ==
    /\ opc = "returned"
    /\ \E tts \in BOOLEAN :
         LET o == process_with_orchestrator(answer)
             speak == ~o.response.none /\ ~is_error_response(o.response)
             made == ResponseArtifacts(o, speak, tts)
         IN  /\ saved' = made.response
             /\ audio' = made.playback
    /\ opc' = "handled"
    /\ UNCHANGED <<query, decision, todo, agent_responses, agents_used,
                   outcome, response, answer>>
    /\ UNCHANGED NotOrch

(***************************************************************************)
(* _chunk_text_for_tts and text_to_speech                                  *)
(***************************************************************************)
\* A text for the splitter is a list of sentences joined by ". ", a sentence
\* is a list of words joined by " ", and a word is its UTF-8 byte length: it
\* has no space and no full stop in it, and its characters are one byte each.
\* Two words of the same length are the same word.
MaxSentences == 2       \* sentences in a text
MaxWords == 2           \* words in a sentence

max_bytes == 4500       \* _chunk_text_for_tts(max_bytes=4500)

WordSizes == {1, 2250, 4500, 4501}

RECURSIVE SeqsUpTo(_, _)
\* The non-empty sequences of at most n members of S.
SeqsUpTo(S, n) ==
    IF n = 0 THEN {}
    ELSE LET shorter == SeqsUpTo(S, n - 1)
         IN  {<<x>> : x \in S} \cup shorter
                 \cup {Append(s, x) : s \in shorter, x \in S}

TtsSentences == SeqsUpTo(WordSizes, MaxWords)

TtsTexts == SeqsUpTo(TtsSentences, MaxSentences)

RECURSIVE SumSeq(_)
SumSeq(s) == IF s = <<>> THEN 0 ELSE Head(s) + SumSeq(Tail(s))

\* len(sentence.encode('utf-8')): the words and the spaces between them.
SentenceBytes(sentence) == SumSeq(sentence) + (Len(sentence) - 1)

RECURSIVE TextBytes(_)
\* len(text.encode('utf-8')): the sentences and the ". " between them.
TextBytes(text) ==
    IF Len(text) = 1 THEN SentenceBytes(text[1])
    ELSE SentenceBytes(Head(text)) + 2 + TextBytes(Tail(text))

\* A string under construction: its byte length and whether it ends with the
\* space of a ". " (which strip() removes).
EmptyString == [bytes |-> 0, space |-> FALSE]

StripBytes(s) == IF s.space THEN s.bytes - 1 ELSE s.bytes

RECURSIVE CharPieces(_, _)
\* The character loop on a word that is too long: pieces of limit bytes, and
\* what is left.
CharPieces(n, limit) ==
    IF n <= limit THEN <<n>> ELSE <<limit>> \o CharPieces(n - limit, limit)

RECURSIVE WordLoop(_, _, _, _)
\* "for word in words": st.chunks are the chunks so far, st.word_chunk the
\* byte length of word_chunk.
WordLoop(words, i, limit, st) ==
    IF i > Len(words) THEN st
    ELSE LET word == words[i]
             test_word_chunk == IF st.word_chunk > 0
                                THEN st.word_chunk + 1 + word ELSE word
         IN  WordLoop(words, i + 1, limit,
                 IF test_word_chunk > limit
                 THEN IF st.word_chunk > 0
                      THEN [chunks |-> Append(st.chunks, st.word_chunk),
                            word_chunk |-> word]
                      ELSE [chunks |-> st.chunks \o CharPieces(word, limit),
                            word_chunk |-> 0]
                 ELSE [chunks |-> st.chunks, word_chunk |-> test_word_chunk])

RECURSIVE SentenceLoop(_, _, _, _)
\* "for sentence in sentences": st.chunks are the chunks so far,
\* st.current_chunk is current_chunk.
SentenceLoop(sentences, i, limit, st) ==
    IF i > Len(sentences) THEN st
    ELSE LET sentence == sentences[i]
             more == sentence # sentences[Len(sentences)]
             test_sentence == [bytes |-> SentenceBytes(sentence)
                                            + (IF more THEN 2 ELSE 0),
                               space |-> more]
             test_chunk == [bytes |-> st.current_chunk.bytes + test_sentence.bytes,
                            space |-> test_sentence.space]
             w == WordLoop(sentence, 1, limit,
                           [chunks |-> st.chunks, word_chunk |-> 0])
         IN  SentenceLoop(sentences, i + 1, limit,
                 IF test_chunk.bytes > limit
                 THEN IF st.current_chunk.bytes > 0
                      THEN [chunks |-> Append(st.chunks,
                                              StripBytes(st.current_chunk)),
                            current_chunk |-> test_sentence]
                      ELSE [chunks |-> w.chunks,
                            current_chunk |->
                                IF w.word_chunk > 0
                                THEN [bytes |-> w.word_chunk
                                                   + (IF more THEN 2 ELSE 0),
                                      space |-> more]
                                ELSE EmptyString]
                 ELSE [chunks |-> st.chunks, current_chunk |-> test_chunk])

\* RecordingProcessorGoogle._chunk_text_for_tts: the byte lengths of the
\* chunks, in order.
chunk_text_for_tts(text, limit) ==
    IF TextBytes(text) <= limit THEN <<TextBytes(text)>>
    ELSE LET st == SentenceLoop(text, 1, limit,
                                [chunks |-> <<>>, current_chunk |-> EmptyString])
         IN  IF st.current_chunk.bytes > 0
             THEN Append(st.chunks, StripBytes(st.current_chunk))
             ELSE st.chunks

TextIdle ==
    /\ tts_text = <<>>
    /\ tts_chunks = <<>>
    /\ split_text = <<>>
    /\ split_size = 0
    /\ split_chunks = <<>>

\* text_to_speech: each chunk goes to synthesize_speech; with a single chunk
\* it is the text itself that is sent.
TextToSpeech ==
    /\ tts_text # <<>>
    /\ tts_chunks = <<>>
    /\ tts_chunks' = LET text_chunks == chunk_text_for_tts(tts_text, max_bytes)
                     IN  IF Len(text_chunks) = 1 THEN <<TextBytes(tts_text)>>
                         ELSE text_chunks
    /\ UNCHANGED <<tts_text, split_text, split_size, split_chunks>>
    /\ UNCHANGED NotText

(***************************************************************************)
(* _split_text_into_chunks                                                 *)
(***************************************************************************)
\* For the translation splitter a text is a sequence of characters: two
\* letters, the full stop, the space, the bar and the line break. Of the
\* sentence_endings of the splitter, ". " and "|" can occur in such a text.
MaxTextLen == 5         \* characters in a text

Alphabet == {"a", "b", ".", " ", "|", "\n"}

Whitespace == {" ", "\n"}

\* max_size as the splitter may be called.
ChunkBudgets == {1, 2, 4}

RECURSIVE CharsUpTo(_)
\* The non-empty texts of at most n characters.
CharsUpTo(n) ==
    IF n = 0 THEN {}
    ELSE LET shorter == CharsUpTo(n - 1)
         IN  {<<c>> : c \in Alphabet} \cup shorter
                 \cup {Append(s, c) : s \in shorter, c \in Alphabet}

SplitTexts == CharsUpTo(MaxTextLen)

RECURSIVE LStripWs(_)
LStripWs(s) == IF s # <<>> /\ Head(s) \in Whitespace THEN LStripWs(Tail(s)) ELSE s

RECURSIVE RStripWs(_)
RStripWs(s) ==
    IF s # <<>> /\ s[Len(s)] \in Whitespace
    THEN RStripWs(SubSeq(s, 1, Len(s) - 1)) ELSE s

\* str.strip() on a text of characters.
StripWs(s) == RStripWs(LStripWs(s))

RECURSIVE SplitOn(_, _, _, _)
\* str.split(sep) for a one-character sep: the pieces between the
\* separators, empty ones included; cur is the piece being read.
SplitOn(s, i, sep, cur) ==
    IF i > Len(s) THEN <<cur>>
    ELSE IF s[i] = sep THEN <<cur>> \o SplitOn(s, i + 1, sep, <<>>)
    ELSE SplitOn(s, i + 1, sep, Append(cur, s[i]))

RECURSIVE SplitWs(_, _, _)
\* str.split(): the maximal runs of characters that are not white space.
SplitWs(s, i, cur) ==
    IF i > Len(s) THEN (IF cur = <<>> THEN <<>> ELSE <<cur>>)
    ELSE IF s[i] \in Whitespace
    THEN (IF cur = <<>> THEN <<>> ELSE <<cur>>) \o SplitWs(s, i + 1, <<>>)
    ELSE SplitWs(s, i + 1, Append(cur, s[i]))

RECURSIVE JoinWith(_, _)
\* sep.join(parts).
JoinWith(parts, sep) ==
    IF parts = <<>> THEN <<>>
    ELSE IF Len(parts) = 1 THEN parts[1]
    ELSE parts[1] \o sep \o JoinWith(Tail(parts), sep)

RECURSIVE FindSentences(_, _, _, _)
\* The "while i < len(text)" loop: the character is added to
\* current_sentence, and at a sentence ending the sentence is closed and the
\* rest of the ending skipped.
FindSentences(text, i, current_sentence, sentences) ==
    IF i > Len(text)
    THEN [sentences |-> sentences, current_sentence |-> current_sentence]
    ELSE LET cur == Append(current_sentence, text[i]) IN
         IF text[i] = "." /\ i < Len(text) /\ text[i + 1] = " "
         THEN FindSentences(text, i + 2, <<>>, Append(sentences, cur))
         ELSE IF text[i] = "|"
         THEN FindSentences(text, i + 1, <<>>, Append(sentences, cur))
         ELSE FindSentences(text, i + 1, cur, sentences)

RECURSIVE WordsToSentences(_, _, _, _, _)
\* The last resort when no sentences were found: words are packed into
\* pieces of at most max_size // 2 characters.
WordsToSentences(words, i, half, current, sentences) ==
    IF i > Len(words)
    THEN IF current # <<>> THEN Append(sentences, StripWs(current))
         ELSE sentences
    ELSE IF Len(current) + Len(words[i]) + 1 <= half
    THEN WordsToSentences(words, i + 1, half,
                          current \o words[i] \o <<" ">>, sentences)
    ELSE WordsToSentences(words, i + 1, half, words[i] \o <<" ">>,
                          IF current # <<>>
                          THEN Append(sentences, StripWs(current))
                          ELSE sentences)

RECURSIVE LongSentence(_, _, _, _, _)
\* The word loop on a sentence longer than max_size.
LongSentence(words, i, max_size, temp_chunk, chunks) ==
    IF i > Len(words) THEN [chunks |-> chunks, current_chunk |-> temp_chunk]
    ELSE IF Len(temp_chunk) + Len(words[i]) + 1 <= max_size
    THEN LongSentence(words, i + 1, max_size,
                      temp_chunk \o words[i] \o <<" ">>, chunks)
    ELSE LongSentence(words, i + 1, max_size, words[i] \o <<" ">>,
                      IF temp_chunk # <<>>
                      THEN Append(chunks, StripWs(temp_chunk)) ELSE chunks)

RECURSIVE Combine(_, _, _, _, _)
\* "for sentence in sentences": the sentences are combined into chunks.
Combine(sentences, i, max_size, current_chunk, chunks) ==
    IF i > Len(sentences)
    THEN [chunks |-> chunks, current_chunk |-> current_chunk]
    ELSE LET sentence == StripWs(sentences[i])
             closed == IF current_chunk # <<>>
                      THEN Append(chunks, StripWs(current_chunk)) ELSE chunks
             long == LongSentence(SplitWs(sentence, 1, <<>>), 1, max_size,
                                  <<>>, closed)
         IN  IF sentence = <<>>
             THEN Combine(sentences, i + 1, max_size, current_chunk, chunks)
             ELSE IF Len(current_chunk) + Len(sentence) + 1 <= max_size
             THEN Combine(sentences, i + 1, max_size,
                          current_chunk \o sentence \o <<" ">>, chunks)
             ELSE IF Len(sentence) > max_size
             THEN Combine(sentences, i + 1, max_size, long.current_chunk,
                          long.chunks)
             ELSE Combine(sentences, i + 1, max_size, sentence \o <<" ">>,
                          closed)

RECURSIVE ForceSplit(_, _)
\* "for i in range(0, len(text), max_size)": text[i:i + max_size].
ForceSplit(text, max_size) ==
    IF text = <<>> THEN <<>>
    ELSE IF Len(text) <= max_size THEN <<text>>
    ELSE <<SubSeq(text, 1, max_size)>>
             \o ForceSplit(SubSeq(text, max_size + 1, Len(text)), max_size)

\* The sentences the splitter combines: those found by the scan, or, when
\* the scan found at most one, the lines of the text or its packed words.
SentencesOf(text, max_size) ==
    LET scan == FindSentences(text, 1, <<>>, <<>>)
        found == IF StripWs(scan.current_sentence) # <<>>
                 THEN Append(scan.sentences, scan.current_sentence)
                 ELSE scan.sentences
    IN  IF Len(found) > 1 THEN found
        ELSE IF \E i \in 1..Len(text) : text[i] = "\n"
        THEN SplitOn(text, 1, "\n", <<>>)
        ELSE WordsToSentences(SplitOn(text, 1, " ", <<>>), 1, max_size \div 2,
                              <<>>, <<>>)

\* A faulty variant: the chunk still open after the last sentence is not
\* added.
split_text_into_chunks_NoLastChunk(text, max_size) ==
    IF Len(text) <= max_size THEN <<text>>
    ELSE LET st == Combine(SentencesOf(text, max_size), 1, max_size, <<>>,
                           <<>>)
         IN  IF st.chunks = <<>> THEN ForceSplit(text, max_size)
             ELSE st.chunks

\* RecordingProcessorGoogle._split_text_into_chunks.
split_text_into_chunks(text, max_size) ==
    IF Len(text) <= max_size THEN <<text>>
    ELSE LET st == Combine(SentencesOf(text, max_size), 1, max_size, <<>>,
                           <<>>)
             chunks == IF StripWs(st.current_chunk) # <<>>
                       THEN Append(st.chunks, StripWs(st.current_chunk))
                       ELSE st.chunks
         IN  IF chunks = <<>> THEN ForceSplit(text, max_size) ELSE chunks

\* translate_text on a text longer than the provider's limit: the text is
\* split, and the chunks are translated one by one and joined with " ".
SplitText ==
    /\ split_text # <<>>
    /\ split_chunks = <<>>
    /\ split_chunks' = split_text_into_chunks(split_text, split_size)
    /\ UNCHANGED <<tts_text, tts_chunks, split_text, split_size>>
    /\ UNCHANGED NotText


(***************************************************************************)
(* TranscriptMonitor._generate_audio_response                              *)
(***************************************************************************)
\* The language codes a transcript can carry as its detected language.
ReplyLanguages == {"en", "hi", "bn", "mr"}

\* The orchestrator's answers: "hello" and "thank you" are in the offline
\* phrase table, the others are not.
PivotTexts == {"hello", "thank you", "water the crop", "sow in june",
               "spray neem oil", "test the soil"}

NoMeta == [done |-> FALSE, saved |-> FALSE, target_language |-> "",
           english |-> "", hindi |-> "", translated_text |-> ""]

\* translate_to_language.
translate_to_language(english_text, target, svc) ==
    IF target = "en"
    THEN [translated_text |-> english_text, success |-> TRUE]
    ELSE LET r == translate_text(english_text, "en", target, svc)
         IN  IF r.success
             THEN [translated_text |-> r.translated_text, success |-> TRUE]
             ELSE [translated_text |-> english_text, success |-> FALSE]

\* generate_multilingual_audio: the text is translated towards the target
\* (again, when the caller has translated it already), then spoken; tts tells
\* whether text_to_speech returns or raises.
generate_multilingual_audio(english_text, target, svc, tts) ==
    LET r == translate_to_language(english_text, target, svc)
    IN  IF r.success /\ tts
        THEN [success |-> TRUE, target_language |-> target,
              translated_text |-> r.translated_text]
        ELSE [success |-> FALSE, target_language |-> target,
              translated_text |-> ""]

ReplyIdle ==
    /\ reply_lang = ""
    /\ reply_text = ""
    /\ reply_hindi = ""
    /\ reply_meta = NoMeta

\* _generate_audio_response for one response: source_lang and target_lang of
\* the translation are "en" and "hi", whatever the transcript's language.
GenerateAudioResponse ==
    /\ reply_text # ""
    /\ ~reply_meta.done
    /\ \E svc1 \in {"ok", "fail"}, svc2 \in {"ok", "fail"}, tts \in BOOLEAN :
         LET translation_result == translate_text(reply_text, "en", "hi", svc1)
             hindi_text == IF translation_result.success
                           THEN translation_result.translated_text
                           ELSE reply_text
             result == generate_multilingual_audio(hindi_text, "hi", svc2, tts)
         IN  /\ reply_hindi' = hindi_text
             /\ reply_meta' =
                    IF result.success
                    THEN [done |-> TRUE, saved |-> TRUE,
                          target_language |-> result.target_language,
                          english |-> reply_text, hindi |-> hindi_text,
                          translated_text |-> result.translated_text]
                    ELSE [NoMeta EXCEPT !.done = TRUE]
    /\ UNCHANGED <<reply_lang, reply_text>>
    /\ UNCHANGED NotReply

(***************************************************************************)
(* RecordingFileHandler: the timer threads and processed_files.json        *)
(***************************************************************************)
\* on_created starts one threading.Timer per recording; each thread is named
\* after the recording it was started for.
Threads == {"r1", "r2", "r3"}

ThreadPcs == {"timer", "append", "save", "dump", "close", "done"}

\* The bytes of processed_files.json: head is the list whose JSON text was
\* last written at offset 0, and size the length of the file, 0 for an empty
\* file and 1 + k for the text of a list of k paths (the text of a longer list
\* is longer).
EmptyFile == [head |-> <<>>, size |-> 0]

\* open(processed_file_path, 'w').
truncate(file) == EmptyFile

\* The buffered text reaches the file at offset 0 when the file is closed;
\* what the file holds beyond it stays.
flush(file, buffer) ==
    [head |-> buffer,
     size |-> IF file.size > 1 + Len(buffer) THEN file.size
              ELSE 1 + Len(buffer)]

\* load_processed_files: the list when the bytes are the JSON text of one,
\* and [] when json.load raises.
load_processed_files(file) ==
    IF file.size = 1 + Len(file.head) THEN file.head ELSE <<>>

SaveIdle ==
    /\ tpc = [t \in Threads |-> "done"]
    /\ processed_files = <<>>
    /\ dumped = [t \in Threads |-> <<>>]
    /\ processed_json = EmptyFile

\* _process_file_delayed up to the result of process_recording.
TimerProcess(t) ==
    /\ tpc[t] = "timer"
    /\ \E success \in BOOLEAN :
         tpc' = [tpc EXCEPT ![t] = IF success THEN "append" ELSE "done"]
    /\ UNCHANGED <<processed_files, dumped, processed_json>>
    /\ UNCHANGED NotSave

\* self.processor.processed_files.append(str(file_path)).
TimerAppend(t) ==
    /\ tpc[t] = "append"
    /\ processed_files' = Append(processed_files, t)
    /\ tpc' = [tpc EXCEPT ![t] = "save"]
    /\ UNCHANGED <<dumped, processed_json>>
    /\ UNCHANGED NotSave

\* save_processed_files: open(..., 'w') truncates the file.
SaveOpen(t) ==
    /\ tpc[t] = "save"
    /\ processed_json' = truncate(processed_json)
    /\ tpc' = [tpc EXCEPT ![t] = "dump"]
    /\ UNCHANGED <<processed_files, dumped>>
    /\ UNCHANGED NotSave

\* save_processed_files: json.dump(self.processed_files, f) writes the text
\* of the list, as it is now, to the buffer of f.
SaveDump(t) ==
    /\ tpc[t] = "dump"
    /\ dumped' = [dumped EXCEPT ![t] = processed_files]
    /\ tpc' = [tpc EXCEPT ![t] = "close"]
    /\ UNCHANGED <<processed_files, processed_json>>
    /\ UNCHANGED NotSave

\* save_processed_files: leaving the with block closes f.
SaveClose(t) ==
    /\ tpc[t] = "close"
    /\ processed_json' = flush(processed_json, dumped[t])
    /\ tpc' = [tpc EXCEPT ![t] = "done"]
    /\ UNCHANGED <<processed_files, dumped>>
    /\ UNCHANGED NotSave

(***************************************************************************)
(* The transcript JSON between process_recording and TranscriptMonitor     *)
(***************************************************************************)
TranscriptFiles == {"t1", "t2"}

\* What is under the final name <id>_transcript.json at each position of
\* the writer: nothing before open(transcript_path, 'w'), an empty file after
\* it, the beginning of the JSON text once json.dump has filled the buffer of
\* f, and the whole text after the with block.
FileContent(pc) ==
    CASE pc = "idle"    -> "absent"
      [] pc = "open"    -> "empty"
      [] pc = "writing" -> "partial"
      [] OTHER          -> "complete"

\* _read_transcript_file: json.load raises JSONDecodeError on an empty and on
\* a truncated text, and None is returned.
read_transcript_file(content) ==
    IF content = "complete" THEN "data" ELSE "none"

WriteIdle ==
    /\ wr_pc = [f \in TranscriptFiles |-> "idle"]
    /\ fs_events = [f \in TranscriptFiles |-> {}]
    /\ tm_reads = [f \in TranscriptFiles |-> {}]
    /\ tm_handled = {}

\* process_recording: open(transcript_path, 'w') creates the file under its
\* final name.
WriteOpen(f) ==
    /\ wr_pc[f] = "idle"
    /\ wr_pc' = [wr_pc EXCEPT ![f] = "open"]
    /\ fs_events' = [fs_events EXCEPT ![f] = @ \cup {"created"}]
    /\ UNCHANGED <<tm_reads, tm_handled>>
    /\ UNCHANGED NotWrite

\* process_recording: json.dump(result, f) when the text is longer than the
\* buffer of f, so that a part of it reaches the file before the end.
WriteData(f) ==
    /\ wr_pc[f] = "open"
    /\ wr_pc' = [wr_pc EXCEPT ![f] = "writing"]
    /\ fs_events' = [fs_events EXCEPT ![f] = @ \cup {"modified"}]
    /\ UNCHANGED <<tm_reads, tm_handled>>
    /\ UNCHANGED NotWrite

\* process_recording: the end of the with block flushes and closes f.
WriteClose(f) ==
    /\ wr_pc[f] \in {"open", "writing"}
    /\ wr_pc' = [wr_pc EXCEPT ![f] = "closed"]
    /\ fs_events' = [fs_events EXCEPT ![f] = @ \cup {"modified"}]
    /\ UNCHANGED <<tm_reads, tm_handled>>
    /\ UNCHANGED NotWrite

\* on_created / on_modified and _process_transcript_file up to the reading
\* of the file; the rest of the handling is TMHandle's.
MonitorEvent(f) ==
    /\ \E e \in fs_events[f] :
         /\ fs_events' = [fs_events EXCEPT ![f] = @ \ {e}]
         /\ IF f \in tm_handled
            THEN UNCHANGED <<tm_reads, tm_handled>>
            ELSE LET content == FileContent(wr_pc[f])
                     data == read_transcript_file(content)
                 IN  /\ tm_reads' = [tm_reads EXCEPT ![f] = @ \cup {content}]
                     /\ tm_handled' = IF data = "none" THEN tm_handled
                                      ELSE tm_handled \cup {f}
    /\ UNCHANGED wr_pc
    /\ UNCHANGED NotWrite

(***************************************************************************)
(* The agent calls of the pipelines, with time passing                     *)
(***************************************************************************)
\* The lists of agents a pipeline goes through: the required_agents of a
\* Specific decision, or all four for the Generic pipeline.
DispatchLists ==
    {SelectSeq(AllAgents, LAMBDA a : a \in S) : S \in (SUBSET Agents) \ {{}}}

CallIdle ==
    /\ call_todo = <<>>
    /\ call_agent = ""
    /\ call_overdue = {}
    /\ call_findings = [a \in Agents |-> "none"]

\* self.<agent>.process_query(...) is entered; the pipeline's thread is
\* inside the call until it returns.
AgentCallBegins ==
    /\ call_agent = ""
    /\ call_todo # <<>>
    /\ call_agent' = Head(call_todo)
    /\ UNCHANGED <<call_todo, call_overdue, call_findings>>
    /\ UNCHANGED NotCall

\* Time passes while the agent is at work: the pipeline has no timer, no
\* deadline and no other thread, so nothing in it runs.
DeadlinePasses ==
    /\ call_agent # ""
    /\ call_agent \notin call_overdue
    /\ call_overdue' = call_overdue \cup {call_agent}
    /\ UNCHANGED <<call_todo, call_agent, call_findings>>
    /\ UNCHANGED NotCall

\* process_query returns, and its dict is recorded under the agent's name.
AgentReturns ==
    /\ call_agent # ""
    /\ \E o \in Outcomes :
         call_findings' =
             [call_findings EXCEPT ![call_agent] =
                  IF process_query(call_agent, o, "specific").finding.ok
                  THEN "ok" ELSE "failed"]
    /\ call_todo' = Tail(call_todo)
    /\ call_agent' = ""
    /\ UNCHANGED call_overdue
    /\ UNCHANGED NotCall

(***************************************************************************)
(* signal_handler and stop_monitoring                                      *)
(***************************************************************************)
\* __init__: self.running = False.
StopIdle == running = FALSE

\* SIGINT / SIGTERM: signal_handler calls stop_monitoring (self.running =
\* False) and sys.exit(0) in the main thread, whose finally block stops and
\* joins the observer. The timer threads are not touched: no Timer is kept
\* or cancelled, and nothing is recorded for the recording a thread is at.
SignalHandler ==
    /\ running
    /\ running' = FALSE
    /\ UNCHANGED NotStop

(***************************************************************************)
(* _extract_query_from_input and the LLM call it makes                     *)
(***************************************************************************)
\* The transcript texts of a request. Every one of them is shorter than 200
\* characters, so raw_input[:200] is the text itself.
RawInputs == {<<>>} \cup SeqsUpTo({"w", "rain", " "}, 2)

NoCompletion == [raised |-> FALSE, content |-> <<>>]

\* What client.chat.completions.create does for one request: it returns a
\* message with some content, or it raises (network error, timeout, quota)
\* with a message. A message whose content is None makes the slice in the
\* debug line raise inside the same try block.
Completions ==
    [raised : {FALSE}, content : LlmReplies \ {<<"Error:", "w">>}]
        \cup [raised : {TRUE}, content : {<<"w">>, <<"timeout">>}]

\* LLMClient.call_text_llm: the content of the reply, or, for every exception
\* of the request, the string "Error: <message>". It never raises.
call_text_llm(c) ==
    IF c.raised THEN <<"Error:">> \o c.content ELSE c.content

ExtractIdle ==
    /\ xpc = "idle"
    /\ raw_input = <<>>
    /\ completion = NoCompletion
    /\ extracted = <<>>

\* _extract_query_from_input: the try block calls call_text_llm and strips
\* its reply. call_text_llm returns a string in every case and str.strip
\* does not raise, so the except branch (return raw_input[:200]) is never
\* entered.
ExtractQuery ==
    /\ xpc = "extract"
    /\ extracted' = extract_query_from_input(call_text_llm(completion))
    /\ xpc' = "done"
    /\ UNCHANGED <<raw_input, completion>>
    /\ UNCHANGED NotExtract

(***************************************************************************)
(* WeatherAgent._validate_date_parameters                                  *)
(***************************************************************************)
\* Days are counted from the day of the call: datetime.now().date() is day 0.
current_date == 0

max_forecast_date == current_date + 16

PastDays == 2

FutureDays == 20

Days == (0 - PastDays)..FutureDays

\* A value of the key "start_date" or "end_date": a string that names a day
\* in the form %Y-%m-%d (strptime also accepts it with unpadded month and
\* day), a string that names no day, null, or no such key at all.
NoDate(kind) == [kind |-> kind, day |-> 0, padded |-> FALSE]

DateValues ==
    [kind : {"date"}, day : Days, padded : BOOLEAN]
        \cup {NoDate("text"), NoDate("null"), NoDate("missing")}

\* params[key] followed by datetime.strptime(..., '%Y-%m-%d').date(): the
\* exception it ends in, if any.
strptime(v) ==
    CASE v.kind = "date"    -> [error |-> "none", day |-> v.day]
      [] v.kind = "text"    -> [error |-> "ValueError", day |-> 0]
      [] v.kind = "null"    -> [error |-> "TypeError", day |-> 0]
      [] OTHER              -> [error |-> "KeyError", day |-> 0]

\* date.strftime('%Y-%m-%d'): always padded.
strftime(d) == [kind |-> "date", day |-> d, padded |-> TRUE]

NoParams == [start_date |-> NoDate("missing"), end_date |-> NoDate("missing")]

\* WeatherAgent._validate_date_parameters: both dates are parsed first; only
\* a ValueError is caught, and answered with the default range.
validate_date_parameters(params) ==
    LET s == strptime(params.start_date)
        e == strptime(params.end_date)
        error == IF s.error # "none" THEN s.error ELSE e.error
        start_date == IF s.day < current_date THEN current_date ELSE s.day
        p1 == IF s.day < current_date
              THEN [params EXCEPT !.start_date = strftime(start_date)]
              ELSE params
        capped == IF e.day > max_forecast_date THEN max_forecast_date
                  ELSE e.day
        p2 == IF e.day > max_forecast_date
              THEN [p1 EXCEPT !.end_date = strftime(capped)] ELSE p1
        end_date == IF capped <= start_date THEN start_date + 7 ELSE capped
        p3 == IF capped <= start_date
              THEN [p2 EXCEPT !.end_date = strftime(end_date)] ELSE p2
    IN  IF error = "none" THEN [raised |-> FALSE, params |-> p3]
        ELSE IF error = "ValueError"
        THEN [raised |-> FALSE,
              params |-> [start_date |-> strftime(current_date),
                          end_date |-> strftime(current_date + 7)]]
        ELSE [raised |-> TRUE, params |-> params]

DatesIdle ==
    /\ vpc = "idle"
    /\ llm_params = NoParams
    /\ date_params = NoParams

\* _extract_weather_parameters calls _validate_date_parameters on the parsed
\* JSON; an exception leaving it is caught by the caller, which then uses
\* _get_default_parameters.
ValidateDates ==
    /\ vpc = "validate"
    /\ LET r == validate_date_parameters(llm_params) IN
       /\ vpc' = IF r.raised THEN "raised" ELSE "done"
       /\ date_params' = r.params
    /\ UNCHANGED llm_params
    /\ UNCHANGED NotDates

(***************************************************************************)
(* Initial states and specifications                                       *)
(***************************************************************************)
GateIdle ==
    /\ fexists = FALSE
    /\ fsize = 0
    /\ marker = FALSE
    /\ gpc = "not_ready"
    /\ entry = "watch"
    /\ last_size = 0
    /\ stable_count = 0
    /\ total_wait = 0
    /\ obs = <<>>
    /\ evidence = [c \in {"h", "p"} |-> NoEvidence]

PipeIdle ==
    /\ suffix \in [Files -> {".wav", ".gsm"}]
    /\ dir = {}
    /\ drops = 0
    /\ disk_log = NoLog
    /\ rp_phase = "off"
    /\ rp_processed = [kind |-> "list", items |-> <<>>]
    /\ sweepTodo = {}
    /\ timers = [f \in Files |-> 0]
    /\ rp_calls = [f \in Files |-> 0]
    /\ af_phase = "off"
    /\ af_processed = {}
    /\ afTodo = {}
    /\ scans = 0
    /\ transcripts = [f \in Files |-> NoArtifact]
    /\ last_run = [f \in Files |-> NoRun]
    /\ task_state = [f \in Files |-> "None"]
    /\ prev_state = [f \in Files |-> "None"]
    /\ run = [f \in Files |-> <<>>]
    /\ tm_phase = "off"
    /\ tm_processed = {}
    /\ tm_disk = {}
    /\ tm_events = {}
    /\ responses = [f \in Files |-> FALSE]
    /\ playback = [f \in Files |-> FALSE]

InitGate ==
    /\ fexists = TRUE
    /\ fsize \in Sizes
    /\ marker \in BOOLEAN
    /\ gpc = "timer"
    /\ entry \in {"watch", "sweep"}
    /\ last_size = 0
    /\ stable_count = 0
    /\ total_wait = 0
    /\ obs = <<>>
    /\ evidence = [c \in {"h", "p"} |-> NoEvidence]
    /\ PipeIdle
    /\ OrchIdle
    /\ TextIdle
    /\ ReplyIdle
    /\ SaveIdle
    /\ WriteIdle
    /\ CallIdle
    /\ StopIdle
    /\ ExtractIdle
    /\ DatesIdle

NextGate ==
    \/ TimerFires
    \/ SweepCalls
    \/ \E c \in {"h", "p"} : GateEnter(c)
    \/ \E c \in {"h", "p"} : GateSleep(c)
    \/ \E c \in {"h", "p"} : GatePoll(c)
    \/ \E c \in {"h", "p"} : GateTimeout(c)
    \/ WriterWrites
    \/ WriterMarks
    \/ FileRemoved

SpecGate == InitGate /\ [][NextGate]_vars

\* Nothing has been processed yet: the directory is empty or holds recordings
\* made while no component was running.
Init ==
    /\ GateIdle
    /\ PipeIdle
    /\ OrchIdle
    /\ TextIdle
    /\ ReplyIdle
    /\ SaveIdle
    /\ WriteIdle
    /\ CallIdle
    /\ StopIdle
    /\ ExtractIdle
    /\ DatesIdle

Next ==
    \/ \E f \in Files : DropFile(f)
    \/ RPStart
    \/ \E f \in Files : RPSweepStep(f)
    \/ RPSweepEnd
    \/ \E f \in Files : TimerRun(f)
    \/ AFStart
    \/ AFScanBegin
    \/ \E f \in Files : AFStep(f)
    \/ AFScanEnd
    \/ TMStart
    \/ \E f \in Files : TMHandle(f)

Spec == Init /\ [][Next]_vars

\* No request has come in yet.
InitOrch ==
    /\ GateIdle
    /\ PipeIdle
    /\ OrchIdle
    /\ TextIdle
    /\ ReplyIdle
    /\ SaveIdle
    /\ WriteIdle
    /\ CallIdle
    /\ StopIdle
    /\ ExtractIdle
    /\ DatesIdle

NextOrch ==
    \/ OrchBegin
    \/ OrchExtract
    \/ OrchClassify
    \/ SpecificCall
    \/ SpecificSynthesize
    \/ GatherCall
    \/ GenericCompile
    \/ OrchConvert
    \/ TMReceive

SpecOrch == InitOrch /\ [][NextOrch]_vars

\* A text is about to be spoken.
InitTts ==
    /\ GateIdle
    /\ PipeIdle
    /\ OrchIdle
    /\ tts_text \in TtsTexts
    /\ tts_chunks = <<>>
    /\ split_text = <<>>
    /\ split_size = 0
    /\ split_chunks = <<>>
    /\ ReplyIdle
    /\ SaveIdle
    /\ WriteIdle
    /\ CallIdle
    /\ StopIdle
    /\ ExtractIdle
    /\ DatesIdle

NextTts == TextToSpeech

SpecTts == InitTts /\ [][NextTts]_vars

\* A text is about to be translated.
InitSplit ==
    /\ GateIdle
    /\ PipeIdle
    /\ suffix = [f \in Files |-> ".wav"]
    /\ OrchIdle
    /\ tts_text = <<>>
    /\ tts_chunks = <<>>
    /\ split_text \in SplitTexts
    /\ split_size \in ChunkBudgets
    /\ split_chunks = <<>>
    /\ ReplyIdle
    /\ SaveIdle
    /\ WriteIdle
    /\ CallIdle
    /\ StopIdle
    /\ ExtractIdle
    /\ DatesIdle

NextSplit == SplitText

SpecSplit == InitSplit /\ [][NextSplit]_vars

\* A transcript has been answered, and the answer is about to be spoken.
InitReply ==
    /\ GateIdle
    /\ PipeIdle
    /\ suffix = [f \in Files |-> ".wav"]
    /\ OrchIdle
    /\ TextIdle
    /\ reply_lang \in ReplyLanguages
    /\ reply_text \in PivotTexts
    /\ reply_hindi = ""
    /\ reply_meta = NoMeta
    /\ SaveIdle
    /\ WriteIdle
    /\ CallIdle
    /\ StopIdle
    /\ ExtractIdle
    /\ DatesIdle

NextReply == GenerateAudioResponse

SpecReply == InitReply /\ [][NextReply]_vars

\* Recordings have arrived, and a timer is running for each of them.
InitSave ==
    /\ GateIdle
    /\ PipeIdle
    /\ suffix = [f \in Files |-> ".wav"]
    /\ OrchIdle
    /\ TextIdle
    /\ ReplyIdle
    /\ tpc = [t \in Threads |-> "timer"]
    /\ processed_files = <<>>
    /\ dumped = [t \in Threads |-> <<>>]
    /\ processed_json = EmptyFile
    /\ WriteIdle
    /\ CallIdle
    /\ StopIdle
    /\ ExtractIdle
    /\ DatesIdle

NextSave ==
    \/ \E t \in Threads : TimerProcess(t)
    \/ \E t \in Threads : TimerAppend(t)
    \/ \E t \in Threads : SaveOpen(t)
    \/ \E t \in Threads : SaveDump(t)
    \/ \E t \in Threads : SaveClose(t)

SpecSave == InitSave /\ [][NextSave]_vars

\* The monitor is watching the transcripts directory, and no transcript has
\* been written yet.
InitWrite ==
    /\ GateIdle
    /\ PipeIdle
    /\ suffix = [f \in Files |-> ".wav"]
    /\ OrchIdle
    /\ TextIdle
    /\ ReplyIdle
    /\ SaveIdle
    /\ WriteIdle
    /\ CallIdle
    /\ StopIdle
    /\ ExtractIdle
    /\ DatesIdle

NextWrite ==
    \/ \E f \in TranscriptFiles : WriteOpen(f)
    \/ \E f \in TranscriptFiles : WriteData(f)
    \/ \E f \in TranscriptFiles : WriteClose(f)
    \/ \E f \in TranscriptFiles : MonitorEvent(f)

SpecWrite == InitWrite /\ [][NextWrite]_vars

\* A pipeline is about to call its agents.
InitCall ==
    /\ GateIdle
    /\ PipeIdle
    /\ suffix = [f \in Files |-> ".wav"]
    /\ OrchIdle
    /\ TextIdle
    /\ ReplyIdle
    /\ SaveIdle
    /\ WriteIdle
    /\ call_todo \in DispatchLists
    /\ call_agent = ""
    /\ call_overdue = {}
    /\ call_findings = [a \in Agents |-> "none"]
    /\ StopIdle
    /\ ExtractIdle
    /\ DatesIdle

NextCall ==
    \/ AgentCallBegins
    \/ DeadlinePasses
    \/ AgentReturns

SpecCall == InitCall /\ [][NextCall]_vars

\* The watcher is in its watch loop, and a timer is running for each of the
\* recordings that have arrived.
InitStop ==
    /\ GateIdle
    /\ PipeIdle
    /\ suffix = [f \in Files |-> ".wav"]
    /\ OrchIdle
    /\ TextIdle
    /\ ReplyIdle
    /\ tpc = [t \in Threads |-> "timer"]
    /\ processed_files = <<>>
    /\ dumped = [t \in Threads |-> <<>>]
    /\ processed_json = EmptyFile
    /\ WriteIdle
    /\ CallIdle
    /\ running = TRUE
    /\ ExtractIdle
    /\ DatesIdle

NextStop ==
    \/ SignalHandler
    \/ \E t \in Threads : TimerProcess(t)
    \/ \E t \in Threads : TimerAppend(t)
    \/ \E t \in Threads : SaveOpen(t)
    \/ \E t \in Threads : SaveDump(t)
    \/ \E t \in Threads : SaveClose(t)

SpecStop == InitStop /\ [][NextStop]_vars

\* process_farmer_request has called _extract_query_from_input with some
\* transcript text, and the LLM request of that call will end in some way.
InitExtract ==
    /\ GateIdle
    /\ PipeIdle
    /\ OrchIdle
    /\ TextIdle
    /\ ReplyIdle
    /\ SaveIdle
    /\ WriteIdle
    /\ CallIdle
    /\ StopIdle
    /\ xpc = "extract"
    /\ raw_input \in RawInputs
    /\ completion \in Completions
    /\ extracted = <<>>
    /\ DatesIdle

NextExtract ==
    \/ ExtractQuery

SpecExtract == InitExtract /\ [][NextExtract]_vars

\* _extract_weather_parameters has parsed the LLM's JSON and calls
\* _validate_date_parameters on it.
InitDates ==
    /\ GateIdle
    /\ PipeIdle
    /\ OrchIdle
    /\ TextIdle
    /\ ReplyIdle
    /\ SaveIdle
    /\ WriteIdle
    /\ CallIdle
    /\ StopIdle
    /\ ExtractIdle
    /\ vpc = "validate"
    /\ llm_params \in [start_date : DateValues, end_date : DateValues]
    /\ date_params = NoParams

NextDates ==
    \/ ValidateDates

SpecDates == InitDates /\ [][NextDates]_vars

(***************************************************************************)
(* C2                                                                      *)
(***************************************************************************)
\* A gate call's evidence is good when it saw the marker, or its newest
\* stability_time + 1 reads (the read it compares with and stability_time
\* polls after it) are all the same size.
GoodEvidence(e) ==
    \/ e.marker
    \/ /\ Len(e.sizes) = stability_time + 1
       /\ \A i \in 1..Len(e.sizes) : e.sizes[i] = e.sizes[1]

C1_AtMostOncePerId == \A f \in Files : rp_calls[f] <= 1

\* The declared ordering of AudioTask states.
Ordering == <<"Pending", "Converting", "Transcribing", "Translating",
              "TranscriptReady", "Orchestrating", "Responding", "Done">>

Position(s) == CHOOSE i \in 1..Len(Ordering) : Ordering[i] = s

\* One transition of the declared state machine: to the next state of the
\* ordering, or from a state that is not final to Failed.
LegalMove(x, y) ==
    \/ x = "None" /\ y = "Pending"
    \/ /\ x \notin {"None", "Done", "Failed"}
       /\ \/ y = "Failed"
          \/ y \notin {"None", "Failed"} /\ Position(y) = Position(x) + 1

LegalPath(from, path) ==
    \A i \in 1..Len(path) :
        LegalMove(IF i = 1 THEN from ELSE path[i - 1], path[i])

\* C3: the states an AudioTask goes through are a prefix of the declared
\* ordering, possibly ending in Failed: each step on a task starts from the
\* state the task was left in and moves on in declared order, with no state
\* skipped, repeated or revisited.
C3_StagesInDeclaredOrder ==
    \A f \in Files : LegalPath(prev_state[f], run[f])

\* The ids a processed-id log on disk holds.
LogIds(log) == Range(log.items)

\* The ids RecordingProcessorGoogle.processed_files holds.
RpIds(p) == Range(p.items)

\* C4: the processed-id log is monotone: no step removes an id from an
\* in-memory processed set or from a log on disk.
C4_LogMonotone ==
    [][/\ LogIds(disk_log) \subseteq LogIds(disk_log')
       /\ RpIds(rp_processed) \subseteq RpIds(rp_processed')
       /\ af_processed \subseteq af_processed'
       /\ tm_processed \subseteq tm_processed'
       /\ tm_disk \subseteq tm_disk']_vars

\* C5: Failed is terminal: a task id that ended in Failed never enters a
\* processing stage again.
C5_FailedIsTerminal ==
    [][\A f \in Files : task_state[f] = "Failed" => task_state'[f] = "Failed"]_vars

\* C10: when the newest run of process_recording on a file got text from
\* transcription, the transcript artifact of that file exists and its
\* transcription.transcript is that text, whatever became of the translation.
C10_TranscriptKeepsText ==
    \A f \in Files :
        last_run[f].stt # "" =>
            /\ transcripts[f].exists
            /\ transcripts[f].transcript = last_run[f].stt

\* A run whose translation failed on every provider and offline, with the
\* transcript written all the same.
C10_Witness ==
    \E f \in Files :
        /\ last_run[f].stt # ""
        /\ last_run[f].translated
        /\ ~last_run[f].translation_success
        /\ transcripts[f].exists
        /\ ~transcripts[f].translation_success

(***************************************************************************)
(* C6, C7, C8, C9                                                          *)
(***************************************************************************)
\* The agents the running request has called so far.
Invoked == {a \in Agents : outcome[a] # "none"}

\* The agents the pipeline decision selects.
Selected ==
    IF decision.pipeline_type = "generic" THEN Agents
    ELSE Range(decision.required_agents.items) \cap Agents

\* C6: when specialists were dispatched and none of them returned a
\* successful finding, the orchestration ends in an error instead of a
\* synthesised answer, and neither a response JSON nor playback audio is
\* produced for the transcript.
C6_AllFailedNoArtifact ==
    (/\ opc = "handled"
     /\ Invoked # {}
     /\ \A a \in Invoked : ~agent_responses[a].ok)
        => (response.status = "error" /\ ~saved /\ ~audio)

\* C7: a specialist that returned Failed, or in whose work something raised,
\* is recorded as one Failed finding under its own name; once the dispatch is
\* over every selected specialist has been invoked, and the synthesis has run
\* whenever at least one finding is successful.
C7_FailedRecordedNoAbort ==
    /\ \A a \in Agents :
          outcome[a] \in {"failed", "raised"} =>
              /\ agent_responses[a].recorded
              /\ agent_responses[a].agent = a
              /\ ~agent_responses[a].ok
    /\ (opc \in {"convert", "returned", "handled"}
        /\ decision.required_agents.iterable) =>
              /\ Selected \subseteq Invoked
              /\ (\E a \in Agents : agent_responses[a].ok)
                     => response.status = "success"

\* A Specific request whose weather agent raised and whose pest agent, called
\* after it, succeeded; the synthesised answer was saved.
C7_Witness ==
    /\ opc = "handled"
    /\ decision.pipeline_type = "specific"
    /\ outcome["weather"] = "raised"
    /\ outcome["pest"] = "ok"
    /\ agent_responses["pest"].ok
    /\ response.status = "success"
    /\ saved

\* C8: the finding recorded for a specialist is the one its own call
\* returned, whatever the other specialists did, failed or not, in the
\* Specific and in the Generic pipeline.
C8_FindingsIndependent ==
    \A a \in Invoked :
        agent_responses[a] =
            process_query(a, outcome[a], decision.pipeline_type).finding

\* A Generic request in which the soil agent failed between two agents that
\* succeeded, with all findings in place at the end.
C8_Witness ==
    /\ opc = "handled"
    /\ decision.pipeline_type = "generic"
    /\ outcome["weather"] = "ok"
    /\ outcome["soil"] = "failed"
    /\ outcome["pest"] = "ok"
    /\ agent_responses["weather"].ok
    /\ ~agent_responses["soil"].ok
    /\ agent_responses["pest"].ok

\* An answer for the farmer: some text, and not the error string of the LLM
\* client.
FarmerFacing(text) ==
    /\ Strip(text) # <<>>
    /\ Head(Strip(text)) # "Error:"

\* C9: whatever the LLM replied at each step, process_farmer_request returns
\* a farmer-facing answer: never nothing, never an error string.
C9_AlwaysFarmerAnswer ==
    opc \in {"returned", "handled"} => (~answer.none /\ FarmerFacing(answer.text))

(***************************************************************************)
(* C11                                                                     *)
(***************************************************************************)
\* C11: when the newest run of process_recording on a file got as far as
\* transcription and obtained no text, the transcript artifact of that file
\* exists, with empty text and success false.
C11_EmptyTranscriptWritten ==
    \A f \in Files :
        (last_run[f].transcribed /\ last_run[f].stt = "") =>
            /\ transcripts[f].exists
            /\ transcripts[f].transcript = ""
            /\ ~transcripts[f].success

C13_TtsFailureKeepsResponse ==
    \A f \in Files :
        run[f] = <<"Orchestrating", "Responding", "Failed">> =>
            /\ responses[f]
            /\ ~playback[f]

\* A transcript whose answer was good enough to be spoken and whose
\* text-to-speech failed.
C13_Witness ==
    \E f \in Files :
        /\ run[f] = <<"Orchestrating", "Responding", "Failed">>
        /\ task_state[f] = "Failed"
        /\ f \in tm_processed
        /\ responses[f]
        /\ ~playback[f]

(***************************************************************************)
(* C14                                                                     *)
(***************************************************************************)
\* C14: every chunk text_to_speech passes to the provider is at most
\* max_bytes (4500) bytes long.
C14_ChunksWithinLimit ==
    \A i \in 1..Len(tts_chunks) : tts_chunks[i] <= max_bytes

(***************************************************************************)
(* C15                                                                     *)
(***************************************************************************)
\* The text with a space after every bar: the bar ends a sentence for the
\* splitter as ". " does, without a space of its own.
BarSpaced(s) ==
    JoinWith([i \in 1..Len(s) |-> IF s[i] = "|" THEN <<"|", " ">> ELSE <<s[i]>>],
             <<>>)

\* The words of a text, sentence endings taken as the splitter takes them.
WordsOf(s) == SplitWs(BarSpaced(s), 1, <<>>)

\* C15: the chunks of the splitter, joined in order with single spaces, have
\* the words of the text: each of them, once, in the order of the text.
C15_JoinedChunksKeepWords ==
    split_chunks # <<>> =>
        WordsOf(JoinWith(split_chunks, <<" ">>)) = WordsOf(split_text)

\* A text of several words was split into more than one chunk.
C15_Witness ==
    /\ Len(split_chunks) > 1
    /\ Len(WordsOf(split_text)) > 2
    /\ WordsOf(JoinWith(split_chunks, <<" ">>)) = WordsOf(split_text)

(***************************************************************************)
(* C16                                                                     *)
(***************************************************************************)
\* C16: when the language detected for the transcript is the target
\* language of the response translation, the translated text of the
\* response is the synthesised text itself.
C16_MatchingCodesIdentity ==
    (reply_meta.saved /\ reply_lang = reply_meta.target_language) =>
        /\ reply_meta.hindi = reply_text
        /\ reply_meta.translated_text = reply_text

(***************************************************************************)
(* C17                                                                     *)
(***************************************************************************)
\* C17: when a pipeline has synthesised its answer, and when
\* process_farmer_request has returned, no selected specialist is still to be
\* called or still at work: each of them has been invoked and has its
\* finding recorded.
C17_FindingsBeforeSynthesis ==
    (/\ decision.required_agents.iterable
     /\ \/ response.status = "success"
        \/ opc \in {"returned", "handled"})
        => /\ todo = <<>>
           /\ Selected \subseteq Invoked
           /\ \A a \in Selected : agent_responses[a].recorded

\* A Specific request for the weather and the pest agent has been answered
\* with both findings in, and a Generic one with all four.
C17_Witness ==
    /\ opc = "returned"
    /\ response.status = "success"
    /\ Cardinality(Selected) >= 2
    /\ \A a \in Selected : agent_responses[a].recorded

(***************************************************************************)
(* C18                                                                     *)
(***************************************************************************)
\* C18: no two timer threads are inside save_processed_files at the same
\* time, and once the threads have finished every id they recorded is in the
\* shared list and in processed_files.json.
C18_SerialisedAndComplete ==
    /\ Cardinality({t \in Threads : tpc[t] \in {"dump", "close"}}) <= 1
    /\ (\A t \in Threads : tpc[t] = "done") =>
           \A t \in Range(processed_files) :
               t \in Range(load_processed_files(processed_json))

(***************************************************************************)
(* C19                                                                     *)
(***************************************************************************)
\* C19: whenever the monitor opens a transcript it has been told of, the
\* file under that name holds the whole JSON text: it never reads an empty
\* or a partly written file.
C19_NeverReadsPartialFile ==
    \A f \in TranscriptFiles : tm_reads[f] \subseteq {"complete"}

(***************************************************************************)
(* C20                                                                     *)
(***************************************************************************)
\* C20: a specialist whose call has passed its deadline is not waited for
\* any longer, and what is recorded for it is a failure by timeout.
C20_OverdueCallCancelled ==
    \A a \in call_overdue :
        /\ call_agent # a
        /\ call_findings[a] = "timeout"

(***************************************************************************)
(* C21                                                                     *)
(***************************************************************************)
\* The agents of the call that have not been started yet.
NotStarted == Range(call_todo) \ {call_agent}

\* C21: the specialists of one call are started without waiting for one
\* another: as long as one of them has still to be started, none of them has
\* been waited for and has returned.
C21_StartedWithoutWaiting ==
    NotStarted # {} => \A a \in Agents : call_findings[a] = "none"

(***************************************************************************)
(* C22                                                                     *)
(***************************************************************************)
\* The monitor's handling of f ended without an answer for the farmer.
OrchestrationFailed(f) == run[f] = <<"Orchestrating", "Failed">>

\* C22: a transcript whose orchestration failed is in the monitor's
\* processed set and in its log on disk, and no later event makes the monitor
\* handle a transcript that is in the set: nothing is produced for it again.
C22_FailedStillMarked ==
    /\ \A f \in Files :
          OrchestrationFailed(f) => f \in tm_processed /\ f \in tm_disk
    /\ \A f \in tm_processed :
          f \notin tm_events
              \/ ~ENABLED (/\ TMHandle(f)
                           /\ <<run, task_state, prev_state, responses, playback>>'
                                  # <<run, task_state, prev_state, responses,
                                      playback>>)

\* A transcript was handled without a response being produced, it is
\* marked, and a further event for it is pending.
C22_Witness ==
    \E f \in Files :
        /\ f \in tm_processed
        /\ f \in tm_disk
        /\ ~responses[f]
        /\ ~playback[f]
        /\ f \in tm_events

(***************************************************************************)
(* C23                                                                     *)
(***************************************************************************)
\* The caller's gate has polled for max_wait seconds without a return.
TimedOut == gpc \in {"h_poll", "p_poll"} /\ total_wait >= max_wait

\* C23: the gate never waits longer than max_wait, and when it has waited
\* that long for a file without marker and without stability_time unchanged
\* reads, its caller's next step is to give the file up: the handler does not
\* call process_recording, and process_recording does not go on to convert.
C23_GateGivesUp ==
    /\ [](total_wait <= max_wait)
    /\ [][(TimedOut /\ gpc' # gpc) => gpc' = "not_ready"]_vars

\* The handler's gate gave up an unmarked file after max_wait seconds.
C23_Witness ==
    /\ gpc = "not_ready"
    /\ entry = "watch"
    /\ fexists
    /\ ~marker
    /\ total_wait = max_wait
    /\ evidence["h"] = NoEvidence
    /\ evidence["p"] = NoEvidence

(***************************************************************************)
(* C24                                                                     *)
(***************************************************************************)
\* C24: once the watcher has entered its watch loop, every recording in the
\* directory has been handed to process_recording or has a timer pending
\* that will hand it over (no other component being there to do it).
C24_NoFileLeftBehind ==
    \A f \in dir :
        (rp_phase = "watching" /\ af_phase = "off" /\ task_state[f] = "None")
            => timers[f] > 0

(***************************************************************************)
(* C25                                                                     *)
(***************************************************************************)
\* C25: once the shutdown signal has been handled, no task in flight goes
\* on: no timer thread moves to a further step, records an id or writes the
\* log.
C25_SignalCancelsWork ==
    [][~running => UNCHANGED <<tpc, processed_files, processed_json>>]_vars

(***************************************************************************)
(* C26                                                                     *)
(***************************************************************************)
\* The reply holds no JSON object, or what it holds is not valid JSON.
ParseFails(reply) == parse_json_response(reply, "any").has_error

\* The decision of the keyword-based fallback for a query.
KeywordDecision(farmer_query) ==
    IF intelligent_pipeline_fallback(farmer_query) = "specific"
    THEN [pipeline_type |-> "specific",
          required_agents |-> AgentList(infer_required_agents(farmer_query))]
    ELSE [pipeline_type |-> "generic", required_agents |-> AllString]

\* C26: when the query is about to be classified, every reply of the LLM
\* that cannot be parsed leads to the decision of the keyword-based fallback:
\* Specific with the matched agents for a query with one of the keywords,
\* Generic with all agents otherwise.
C26_ParseFailureUsesKeywords ==
    opc = "classify" =>
        \A reply \in LlmReplies :
            ParseFails(reply) =>
                classify_pipeline(reply, query) = KeywordDecision(query)

(***************************************************************************)
(* C27                                                                     *)
(***************************************************************************)
\* C27: when the LLM request of the query extraction fails, the query that
\* _extract_query_from_input returns to the later steps is the first 200
\* characters of the raw transcript text (the whole text, for the texts of
\* RawInputs).
C27_FailureUsesRawText ==
    (xpc = "done" /\ completion.raised) => extracted = raw_input

(***************************************************************************)
(* C28                                                                     *)
(***************************************************************************)
\* C28: whenever the classification chose the specific pipeline,
\* required_agents is a non-empty list of names of the four specialists, and
\* a specific run that reports success has invoked at least one of them.
C28_SpecificInvokesSomeone ==
    decision.pipeline_type = "specific" =>
        /\ decision.required_agents.iterable
        /\ decision.required_agents.items # <<>>
        /\ Range(decision.required_agents.items) \subseteq Agents
        /\ response.status = "success" => agents_used # <<>>

(***************************************************************************)
(* C29                                                                     *)
(***************************************************************************)
\* C29: in a specific run that reached its synthesis, the finding of every
\* specialist that succeeded is among the summaries the synthesis was made
\* from.
C29_SuccessfulFindingsIntegrated ==
    (decision.pipeline_type = "specific" /\ response.status = "success") =>
        \A a \in Agents :
            (agent_responses[a].recorded /\ agent_responses[a].ok)
                => a \in response.integrated

(***************************************************************************)
(* C30                                                                     *)
(***************************************************************************)
\* The dates of the input that strptime cannot parse as %Y-%m-%d.
Unparsable ==
    \/ strptime(llm_params.start_date).error = "ValueError"
    \/ strptime(llm_params.end_date).error = "ValueError"

\* C30: the range _validate_date_parameters returns starts no earlier than
\* today, ends no later than today + 16 days and ends after it starts; for
\* dates that cannot be parsed it is today .. today + 7.
C30_RangeWithinHorizon ==
    vpc = "done" =>
        LET start_date == strptime(date_params.start_date).day
            end_date   == strptime(date_params.end_date).day
        IN  /\ start_date >= current_date
            /\ end_date <= max_forecast_date
            /\ end_date > start_date
            /\ Unparsable =>
                   start_date = current_date /\ end_date = current_date + 7

====
